---- MODULE Spec2Model ----
(***************************************************************************)
(* Orchestration core of the AI image editor.                              *)
(*                                                                         *)
(* Spec models one call of AIImageEditor.edit(imageUrl, instruction): the  *)
(* direct strategy (GeminiEditor.editImage), the fallback to the planned   *)
(* pipeline (analyzeScene, planEdit) and the operation loop that hands     *)
(* every operation of the plan to executeOperation.  Every await of the    *)
(* code is a position of pc; the reply of the awaited remote capability is *)
(* chosen nondeterministically by the action that resumes the code.        *)
(***************************************************************************)
EXTENDS Integers, Sequences, FiniteSets, TLC

\* Longest plan the planner returns in the model.
MaxOps == 3

VARIABLES
    useGeminiNative,   \* AIImageEditor.useGeminiNative (constructor config)
    pc,                \* the await the edit() call is suspended at
    directResult,      \* what GeminiEditor.editImage returned: none/success/failure
    editPlan,          \* the EditPlan returned by director.planEdit
    i,                 \* loop index of editWithReplicatePipeline (1-based)
    currentImageUrl,   \* local currentImageUrl of editWithReplicatePipeline
    seg,               \* last result of ReplicateClient.detectAndSegment
    invoked,           \* history: (operation, imageUrl) of every executeOperation call
    opOutput,          \* history: the image every completed executeOperation returned
    failed,            \* history: loop indices whose executeOperation threw
    calls,             \* history: every capability call issued, in order
    made,              \* number of remote outputs produced so far (fresh references)
    result             \* what edit() handed its caller

editVars == <<useGeminiNative, pc, directResult, editPlan, i, currentImageUrl, seg,
              invoked, opOutput, failed, calls, made, result>>

\* One generative-model call of a GeminiEditor method (SpecRetry).
VARIABLES
    method,            \* the GeminiEditor method that issues the call
    maxRetries,        \* GeminiEditor.maxRetries
    attempt,           \* loop variable of withRetry
    rpc,               \* where the call is suspended: operation / sleep / done
    invocations,       \* history: number of times operation() was invoked
    raised,            \* history: the message of every error operation() threw
    sleeps,            \* history: the delay (ms) of every setTimeout of withRetry
    lastError,         \* local lastError of withRetry ("" for null)
    retryOutcome       \* what the call handed the method's code

retryVars == <<method, maxRetries, attempt, rpc, invocations, raised, sleeps,
               lastError, retryOutcome>>

\* One call of a segmentation resolver of ReplicateClient (SpecResolver).
VARIABLES
    resolver,          \* detectAndSegment / detectAndSegmentLegacy / detectObjects
    label,             \* the objectLabel / prompt argument
    imageSource,       \* the imageUrl argument
    spc,               \* the await the resolver is suspended at
    detection,         \* what detectObjects returned to detectAndSegmentLegacy
    remoteCalls,       \* history: every remote call issued (fetch, run)
    received,          \* history: the output the first run resolved with
    resolved           \* what the resolver handed its caller

resolverVars == <<resolver, label, imageSource, spc, detection, remoteCalls,
                  received, resolved>>

\* One call of compositeMaskedEdit of the web server (SpecComposite).  A raw
\* buffer is the sequence of its bytes.
VARIABLES
    originalImage,     \* the decoded originalSource: width, height, channels, data
    editedImage,       \* the decoded editedSource
    maskImage,         \* the decoded maskSource
    cpc,               \* where compositeMaskedEdit is: start / loop / done
    editedResized,     \* raw bytes of the edited image at the original's size
    maskResized,       \* raw bytes of the greyscale mask at the original's size
    originalRaw,       \* raw RGBA bytes of the original
    editedChannels,    \* editedMeta.channels || 3
    px,                \* loop variable i of the pixel loop
    outBuf,            \* the output buffer
    composite          \* the image compositeMaskedEdit encodes and returns

compositeVars == <<originalImage, editedImage, maskImage, cpc, editedResized,
                   maskResized, originalRaw, editedChannels, px, outBuf, composite>>

\* One call of GeminiDirector.parseJSON (SpecParser).
VARIABLES
    responseText,      \* the text argument
    contextLabel,      \* the context argument
    jpc,               \* where parseJSON is: start / stripped / cleaned / done
    cleaned,           \* local cleaned
    logged,            \* history: the lines written with console.error
    parsed             \* what parseJSON handed its caller

parserVars == <<responseText, contextLabel, jpc, cleaned, logged, parsed>>

\* One call of ReplicateClient.run: createPrediction, then waitForPrediction (SpecPoll).
VARIABLES
    wpc,               \* where run is: submit / backoff / head / poll / sleep / done
    retryCount,        \* parameter retryCount of createPrediction
    submissions,       \* history: the number of POST requests sent
    lastBackoff,       \* history: the seconds of the last rate-limit wait
    lastSuggested,     \* history: retry_after of the last rate-limited answer
    elapsed,           \* Date.now() - startTime, in ms
    polled,            \* history: the status of the last poll
    pollFailed,        \* history: a poll request has failed
    runOutcome         \* what run handed its caller

pollVars == <<wpc, retryCount, submissions, lastBackoff, lastSuggested, elapsed, polled,
              pollFailed, runOutcome>>

\* One resolution of an image reference (SpecImageRef).
VARIABLES
    ipc,               \* where the resolution is: called / reading / fetching / done
    imgFn,             \* the function called
    imgSource,         \* the source argument, with the form its caller means
    handledAs,         \* the form the function took the source for
    imgOutcome         \* what the function handed its caller

imageRefVars == <<ipc, imgFn, imgSource, handledAs, imgOutcome>>

\* GeminiEditor.editImage around its withRetry call
VARIABLES
    epc,               \* position in editImage
    parts,             \* the parts of the first candidate of the response
    editResult         \* what editImage returned

editImageVars == <<epc, parts, editResult>>

\* POST /api/upload of the web server and its store of uploaded images
VARIABLES
    clock,             \* Date.now(), in ms since the server started
    uploadedImages,    \* the Map from upload id to data URL
    timers,            \* the pending setTimeout callbacks: [id, due]
    uploadLog          \* the uploads answered so far: [id, dataUrl, at]

uploadVars == <<clock, uploadedImages, timers, uploadLog>>

\* POST /api/edit of the web server
VARIABLES
    hpc,               \* position in the handler
    apiKeySet,         \* a Gemini API key is in the environment
    request,           \* req.body
    geminiCall,        \* the GeminiEditor method the handler called
    geminiResult,      \* what that method returned
    compositeArgs,     \* the arguments of the compositeMaskedEdit call, if made
    httpResponse       \* what the handler answered

editRouteVars == <<hpc, apiKeySet, request, geminiCall, geminiResult,
                   compositeArgs, httpResponse>>

vars == <<editVars, retryVars, resolverVars, compositeVars, parserVars, pollVars, imageRefVars, editImageVars, uploadVars, editRouteVars>>

\* What the actions of one specification leave alone.
otherThanEdit == <<retryVars, resolverVars, compositeVars, parserVars, pollVars, imageRefVars, editImageVars, uploadVars, editRouteVars>>
otherThanRetry == <<editVars, resolverVars, compositeVars, parserVars, pollVars, imageRefVars, editImageVars, uploadVars, editRouteVars>>
otherThanResolver == <<editVars, retryVars, compositeVars, parserVars, pollVars, imageRefVars, editImageVars, uploadVars, editRouteVars>>
otherThanComposite == <<editVars, retryVars, resolverVars, parserVars, pollVars, imageRefVars, editImageVars, uploadVars, editRouteVars>>
otherThanParser == <<editVars, retryVars, resolverVars, compositeVars, pollVars, imageRefVars, editImageVars, uploadVars, editRouteVars>>
otherThanPoll == <<editVars, retryVars, resolverVars, compositeVars, parserVars, imageRefVars, editImageVars, uploadVars, editRouteVars>>
otherThanImageRef == <<editVars, retryVars, resolverVars, compositeVars, parserVars, pollVars, editImageVars, uploadVars, editRouteVars>>
\* editImage runs withRetry: its steps change retryVars too.
otherThanEditImage == <<editVars, resolverVars, compositeVars, parserVars, pollVars, imageRefVars, uploadVars, editRouteVars>>
otherThanUpload == <<editVars, retryVars, resolverVars, compositeVars, parserVars, pollVars, imageRefVars, editImageVars, editRouteVars>>
otherThanEditRoute == <<editVars, retryVars, resolverVars, compositeVars, parserVars, pollVars, imageRefVars, editImageVars, uploadVars>>

----------------------------------------------------------------------------
(* Image references.  Every output of a remote capability is a new URL.    *)

imageUrl == <<"input">>
NoImg == <<>>
Fresh(n) == <<"out", n>>

----------------------------------------------------------------------------
(* EditOperation (gemini-director.ts).  An absent optional field and an    *)
(* empty string are both falsy and are both written "".                    *)

Op(type, target, newPosition, replacement, element) ==
    [type |-> type, target |-> target, newPosition |-> newPosition,
     replacement |-> replacement, element |-> element]

Vocabulary ==
    {"remove", "replace", "add", "relight", "background", "upscale", "style",
     "move", "resize", "detect", "describe", "extract"}

\* The operations the planner may put in a plan: every kind, with the fields
\* its case of executeOperation reads present, absent or blank.
Ops ==
    {Op("remove", t, "", "", "") : t \in {"", " ", "mug"}}
    \cup {Op("replace", t, "", r, "") : t \in {"", "mug"}, r \in {"", "cat"}}
    \cup {Op("resize", t, "", "", "") : t \in {"", "mug"}}
    \cup {Op("move", t, p, "", "") : t \in {"", "mug"}, p \in {"", "left"}}
    \cup {Op("extract", t, "", "", "") : t \in {"", "mug"}}
    \cup {Op("add", "", "", "", e) : e \in {"", "plant"}}
    \cup {Op("detect", t, "", "", "") : t \in {"", " ", "logos"}}
    \cup {Op(k, "", "", "", "") :
            k \in {"describe", "background", "relight", "upscale", "style", "sharpen"}}

Plans == UNION {[1..n -> Ops] : n \in 0..MaxOps}

Truthy(s) == s # ""
IsBlank(s) == s \in {"", " "}

----------------------------------------------------------------------------
(* What edit() hands its caller: a returned EditResult or a thrown Error.  *)
(* A thrown Error carries a message and nothing else.                      *)

Pending == [kind |-> "pending", success |-> FALSE, outputUrl |-> NoImg,
            operations |-> <<>>, error |-> ""]
Returned(success, outputUrl, operations) ==
    [kind |-> "returned", success |-> success, outputUrl |-> outputUrl,
     operations |-> operations, error |-> ""]
Thrown(error) ==
    [kind |-> "thrown", success |-> FALSE, outputUrl |-> NoImg,
     operations |-> <<>>, error |-> error]

Call(cap, k, image) == [cap |-> cap, i |-> k, image |-> image]

NoSeg == [at |-> 0, found |-> FALSE, maskUrl |-> NoImg, bbox |-> FALSE]

----------------------------------------------------------------------------
(* Error messages.                                                         *)

RequiresMsg(type) ==
    CASE type = "remove" -> "Remove operation requires a target"
      [] type = "replace" -> "Replace operation requires target and replacement"
      [] type = "resize" -> "Resize operation requires a target"
      [] type = "move" -> "Move operation requires target and newPosition"
      [] type = "add" -> "Add operation requires parameters.element"
      [] type = "extract" -> "Extract operation requires a target"
      [] OTHER -> "requires"
CouldNotFind == "Could not find target in the image"
CouldNotFindExtract == "Could not find target to extract"
StyleMsg == "Style transfer not yet fully implemented"
UnknownMsg == "Unknown operation type"
LabelMsg == "detectAndSegment requires a non-empty objectLabel"
PromptMsg == "detectObjects requires a non-empty prompt/target string"
RemoteMsg == "Replicate run failed"
DirectorMsg == "director call failed"

\* String(error) of an Error caught by resizeObject / moveObject.
StringOf(msg) == "Error: " \o msg

----------------------------------------------------------------------------
(* executeOperation up to its first await: what the case of the switch     *)
(* does before it suspends, either a throw or the first capability call.   *)

Throw(msg) == [throw |-> TRUE, error |-> msg, cap |-> "", next |-> ""]
Issue(cap, next) == [throw |-> FALSE, error |-> "", cap |-> cap, next |-> next]

\* Faulty variant: no guard.
MissingFieldNoCheck(op) == FALSE
\* The guards `if (!operation.target ...) throw` of the cases.
MissingField(op) ==
    CASE op.type = "remove" -> ~Truthy(op.target)
      [] op.type = "replace" -> ~Truthy(op.target) \/ ~Truthy(op.replacement)
      [] op.type = "resize" -> ~Truthy(op.target)
      [] op.type = "move" -> ~Truthy(op.target) \/ ~Truthy(op.newPosition)
      [] op.type = "add" -> ~Truthy(op.element)
      [] op.type = "extract" -> ~Truthy(op.target)
      [] OTHER -> FALSE

\* ReplicateClient.detectAndSegment up to its await of run(GROUNDED_SAM).
detectAndSegmentCall(objectLabel) ==
    IF IsBlank(objectLabel) THEN Throw(LabelMsg) ELSE Issue("GROUNDED_SAM", "seg")

\* ReplicateClient.resizeObject / moveObject up to the first await: the
\* try block turns a throw of detectAndSegment into {success: false, error},
\* which executeOperation rethrows as new Error(result.error).
resizeObjectCall(objectLabel) ==
    LET s == detectAndSegmentCall(objectLabel)
    IN  IF s.throw THEN Throw(StringOf(s.error)) ELSE s

\* ReplicateClient.detectObjects up to its await of run(GROUNDING_DINO).
detectObjectsCall(prompt) ==
    IF IsBlank(prompt) THEN Throw(PromptMsg) ELSE Issue("GROUNDING_DINO", "report")

\* case 'detect': detectLogos, detectText and detectRoomObjects call
\* detectObjects with a fixed non-empty prompt.
DetectStep(op) ==
    LET target == IF Truthy(op.target) THEN op.target ELSE "objects"
    IN  IF target \in {"logos", "text", "room_objects"}
        THEN detectObjectsCall("logo . brand . emblem . symbol . icon")
        ELSE detectObjectsCall(target)

\* Faulty variant: style handled by the relighting capability.
StyleStepRelight(op) == Issue("IC_LIGHT", "worker")
\* case 'style'
StyleStep(op) == Throw(StyleMsg)

\* default:
UnknownStep(op) == Throw(UnknownMsg)

FirstStep(op) ==
    IF MissingField(op) THEN Throw(RequiresMsg(op.type))
    ELSE CASE op.type \in {"remove", "replace"} -> detectAndSegmentCall(op.target)
           [] op.type = "extract" -> detectAndSegmentCall(op.target)
           [] op.type \in {"resize", "move"} -> resizeObjectCall(op.target)
           [] op.type = "background" -> Issue("REMBG", "worker")
           [] op.type = "relight" -> Issue("IC_LIGHT", "worker")
           [] op.type = "upscale" -> Issue("REAL_ESRGAN", "worker")
           [] op.type = "add" -> Issue("FLUX_FILL", "worker")
           [] op.type = "detect" -> DetectStep(op)
           [] op.type = "describe" -> Issue("BLIP2", "report")
           [] op.type = "style" -> StyleStep(op)
           [] OTHER -> UnknownStep(op)

\* ReplicateClient.detectAndSegment after run(GROUNDED_SAM) returned: an empty
\* array, an unexpected format or an empty first URL is found: false; else the
\* first mask, with an assumed confidence and never a bbox.
detectAndSegmentResult(output, url) ==
    IF output = "masks"
    THEN [found |-> TRUE, maskUrl |-> url, bbox |-> FALSE]
    ELSE [found |-> FALSE, maskUrl |-> NoImg, bbox |-> FALSE]

\* Faulty variant: found is not looked at.
SegmentationMissingIgnored(s) == FALSE
\* `if (!seg.found)` of case 'remove', 'replace' and of extractObject.
SegmentationMissing(s) == ~s.found

\* `if (!seg.found || !seg.bbox || !seg.maskUrl)` of resizeObject / moveObject.
RegionMissing(s) == ~s.found \/ ~s.bbox \/ s.maskUrl = NoImg

\* Faulty variant: a new image reference is returned.
ReportOutputNew(image, n) == Fresh(n)
\* case 'detect' / case 'describe': `return imageUrl`.
ReportOutput(image, n) == image

----------------------------------------------------------------------------
(* editWithReplicatePipeline: the pieces the loop is made of.  Each sets   *)
(* pc, i, currentImageUrl, opOutput, failed, calls and result.             *)

Operations == editPlan.operations

\* Faulty variant: the original image and no operations are returned.
PipelineSuccessOriginal(image, plan) == Returned(TRUE, imageUrl, <<>>)
\* The EditResult returned after the loop.
PipelineSuccess(image, plan) == Returned(TRUE, image, plan.operations)

\* The EditResult returned for a plan without operations.
EmptyPlanResult(plan) == Returned(FALSE, imageUrl, <<>>)

\* Faulty variant: the empty plan is not singled out.
PlanIsEmptyNever(plan) == FALSE
\* `if (editPlan.operations.length === 0)`
PlanIsEmpty(plan) == Len(plan.operations) = 0

\* Suspend on a capability call for operation k.
Await(cap, next, k, image) ==
    /\ calls' = Append(calls, Call(cap, k, image))
    /\ pc' = next
    /\ UNCHANGED <<i, currentImageUrl, opOutput, failed, result>>

\* Faulty variant: the error is swallowed and the loop goes on.
OperationFailedContinue(error) ==
    /\ failed' = failed \cup {i}
    /\ i' = i + 1
    /\ IF i < Len(Operations)
       THEN pc' = "loop" /\ result' = result
       ELSE pc' = "done" /\ result' = PipelineSuccess(currentImageUrl, editPlan)
    /\ UNCHANGED <<currentImageUrl, opOutput, calls>>
\* Faulty variant: a failed EditResult with the current image is returned.
OperationFailedReturns(error) ==
    /\ failed' = failed \cup {i}
    /\ result' = Returned(FALSE, currentImageUrl, Operations)
    /\ pc' = "done"
    /\ UNCHANGED <<i, currentImageUrl, opOutput, calls>>
\* catch (error) { log; throw error; }: the error leaves the loop, the
\* pipeline and edit(); the local currentImageUrl goes out of scope as it is.
OperationFailed(error) ==
    /\ failed' = failed \cup {i}
    /\ result' = Thrown(error)
    /\ pc' = "done"
    /\ UNCHANGED <<i, currentImageUrl, opOutput, calls>>

\* Faulty variant: the returned image is not assigned to currentImageUrl.
OperationReturnedStale(image) ==
    /\ opOutput' = Append(opOutput, image)
    /\ i' = i + 1
    /\ IF i < Len(Operations)
       THEN pc' = "loop" /\ result' = result
       ELSE pc' = "done" /\ result' = PipelineSuccess(image, editPlan)
    /\ UNCHANGED <<currentImageUrl, failed, calls>>
\* currentImageUrl = await executeOperation(...); i++; and, when the loop
\* condition fails, the return after the loop.
OperationReturned(image) ==
    /\ currentImageUrl' = image
    /\ opOutput' = Append(opOutput, image)
    /\ i' = i + 1
    /\ IF i < Len(Operations)
       THEN pc' = "loop" /\ result' = result
       ELSE pc' = "done" /\ result' = PipelineSuccess(image, editPlan)
    /\ UNCHANGED <<failed, calls>>

\* Faulty variant: the pipeline is entered whatever editImage returned.
FallsBackAlways(success) == TRUE
\* `if (!result.success)` of editWithGeminiNative: fall back to the pipeline.
FallsBack(success) == ~success

----------------------------------------------------------------------------
(* The state of a component no call is running on.                         *)

NoOutcome == [kind |-> "pending", value |-> "", error |-> ""]

\* JavaScript's undefined where a number is expected: what reading a buffer
\* past its end gives, and a field that is not there.
Undefined == -1

\* The /api/edit handler before a request: no body, no result, no answer.
NoRequest ==
    [imageSource |-> "", instruction |-> "", mask |-> "", referenceElements |-> <<>>,
     quickOperation |-> ""]
NoGeminiResult == [success |-> FALSE, outputDataUrl |-> "", error |-> ""]
NoResponse ==
    [status |-> 0, success |-> FALSE, outputUrl |-> "", error |-> "", operations |-> <<>>]

\* No result of editImage yet.
NoEditResult == [kind |-> "pending", success |-> FALSE, error |-> "", outputBase64 |-> ""]

EditIdle ==
    /\ useGeminiNative = FALSE
    /\ pc = "idle"
    /\ directResult = "none"
    /\ editPlan = [returned |-> FALSE, operations |-> <<>>]
    /\ i = 0
    /\ currentImageUrl = NoImg
    /\ seg = NoSeg
    /\ invoked = <<>>
    /\ opOutput = <<>>
    /\ failed = {}
    /\ calls = <<>>
    /\ made = 0
    /\ result = Pending

RetryIdle ==
    /\ method = "none"
    /\ maxRetries = 0
    /\ attempt = 0
    /\ rpc = "idle"
    /\ invocations = 0
    /\ raised = <<>>
    /\ sleeps = <<>>
    /\ lastError = ""
    /\ retryOutcome = NoOutcome

ResolverIdle ==
    /\ resolver = "none"
    /\ label = ""
    /\ imageSource = ""
    /\ spc = "idle"
    /\ detection = <<>>
    /\ remoteCalls = <<>>
    /\ received = <<>>
    /\ resolved = NoOutcome

NoImage == [width |-> 0, height |-> 0, channels |-> 0, data |-> <<>>]

CompositeIdle ==
    /\ originalImage = NoImage
    /\ editedImage = NoImage
    /\ maskImage = NoImage
    /\ cpc = "idle"
    /\ editedResized = <<>>
    /\ maskResized = <<>>
    /\ originalRaw = <<>>
    /\ editedChannels = 0
    /\ px = 0
    /\ outBuf = <<>>
    /\ composite = NoImage

ParserIdle ==
    /\ responseText = ""
    /\ contextLabel = ""
    /\ jpc = "idle"
    /\ cleaned = ""
    /\ logged = <<>>
    /\ parsed = NoOutcome

PollIdle ==
    /\ wpc = "idle"
    /\ retryCount = 0
    /\ submissions = 0
    /\ lastBackoff = 0
    /\ lastSuggested = Undefined
    /\ elapsed = 0
    /\ polled = ""
    /\ pollFailed = FALSE
    /\ runOutcome = NoOutcome

ImageRefIdle ==
    /\ ipc = "idle"
    /\ imgFn = "none"
    /\ imgSource = [form |-> "", text |-> ""]
    /\ handledAs = ""
    /\ imgOutcome = NoOutcome

EditImageIdle ==
    /\ epc = "idle"
    /\ parts = <<>>
    /\ editResult = NoEditResult

UploadIdle ==
    /\ clock = 0
    /\ uploadedImages = <<>>
    /\ timers = {}
    /\ uploadLog = <<>>

EditRouteIdle ==
    /\ hpc = "idle"
    /\ apiKeySet = FALSE
    /\ request = NoRequest
    /\ geminiCall = "none"
    /\ geminiResult = NoGeminiResult
    /\ compositeArgs = <<>>
    /\ httpResponse = NoResponse

----------------------------------------------------------------------------
Init ==
    /\ RetryIdle
    /\ ResolverIdle
    /\ CompositeIdle
    /\ ParserIdle
    /\ PollIdle
    /\ ImageRefIdle
    /\ EditImageIdle
    /\ UploadIdle
    /\ EditRouteIdle
    /\ useGeminiNative \in BOOLEAN
    /\ pc = "edit"
    /\ directResult = "none"
    /\ editPlan = [returned |-> FALSE, operations |-> <<>>]
    /\ i = 0
    /\ currentImageUrl = NoImg
    /\ seg = NoSeg
    /\ invoked = <<>>
    /\ opOutput = <<>>
    /\ failed = {}
    /\ calls = <<>>
    /\ made = 0
    /\ result = Pending

\* edit(): editWithGeminiNative up to `await geminiEditor.editImage`, or
\* editWithReplicatePipeline up to `await director.analyzeScene`.
Edit ==
    /\ pc = "edit"
    /\ IF useGeminiNative
       THEN /\ calls' = Append(calls, Call("editImage", 0, imageUrl))
            /\ pc' = "editImage"
       ELSE /\ calls' = Append(calls, Call("analyzeScene", 0, imageUrl))
            /\ pc' = "analyzeScene"
    /\ UNCHANGED <<useGeminiNative, directResult, editPlan, i, currentImageUrl, seg,
                   invoked, opOutput, failed, made, result>>
    /\ UNCHANGED otherThanEdit

\* editWithGeminiNative resumed with the GeminiEditResult of editImage, which
\* catches every error and returns success: false instead.
EditImageReturns ==
    /\ pc = "editImage"
    /\ \E success \in BOOLEAN :
         /\ directResult' = IF success THEN "success" ELSE "failure"
         /\ IF FallsBack(success)
            THEN /\ calls' = Append(calls, Call("analyzeScene", 0, imageUrl))
                 /\ pc' = "analyzeScene"
                 /\ UNCHANGED <<made, result>>
            ELSE /\ made' = made + 1
                 /\ result' = Returned(TRUE, Fresh(made + 1),
                                       <<Op("style", "", "", "", "")>>)
                 /\ pc' = "done"
                 /\ calls' = calls
    /\ UNCHANGED <<useGeminiNative, editPlan, i, currentImageUrl, seg, invoked,
                   opOutput, failed>>
    /\ UNCHANGED otherThanEdit

\* Faulty variant: the error of the director is swallowed.
DirectorThrowsNothing(error) == Pending
\* analyzeScene or planEdit rejects: nothing in editWithReplicatePipeline or
\* in edit() catches it.
DirectorThrows(error) == Thrown(error)

\* editWithReplicatePipeline resumed after analyzeScene: a throw of the
\* director (API or parse error) leaves edit(); else planEdit is awaited.
AnalyzeSceneReturns ==
    /\ pc = "analyzeScene"
    /\ \E ok \in BOOLEAN :
         IF ok
         THEN /\ calls' = Append(calls, Call("planEdit", 0, imageUrl))
              /\ pc' = "planEdit"
              /\ result' = result
         ELSE /\ result' = DirectorThrows(DirectorMsg)
              /\ pc' = "done"
              /\ calls' = calls
    /\ UNCHANGED <<useGeminiNative, directResult, editPlan, i, currentImageUrl, seg,
                   invoked, opOutput, failed, made>>
    /\ UNCHANGED otherThanEdit

\* editWithReplicatePipeline resumed after planEdit, down to the loop head.
PlanEditReturns ==
    /\ pc = "planEdit"
    /\ \/ /\ result' = DirectorThrows(DirectorMsg)
          /\ pc' = "done"
          /\ UNCHANGED <<editPlan, i, currentImageUrl>>
       \/ \E p \in Plans :
            LET plan == [returned |-> TRUE, operations |-> p]
            IN  /\ editPlan' = plan
                /\ IF PlanIsEmpty(plan)
                   THEN /\ result' = EmptyPlanResult(plan)
                        /\ pc' = "done"
                        /\ UNCHANGED <<i, currentImageUrl>>
                   ELSE /\ currentImageUrl' = imageUrl
                        /\ i' = 1
                        /\ IF 1 <= Len(p)
                           THEN pc' = "loop" /\ result' = result
                           ELSE /\ pc' = "done"
                                /\ result' = PipelineSuccess(imageUrl, plan)
    /\ UNCHANGED <<useGeminiNative, directResult, seg, invoked, opOutput, failed,
                   calls, made>>
    /\ UNCHANGED otherThanEdit

\* executeOperation(currentImageUrl, operations[i], scene) up to its first
\* await, or to its throw.
ExecuteOperation ==
    /\ pc = "loop"
    /\ LET op == Operations[i]
           step == FirstStep(op)
       IN  /\ invoked' = Append(invoked, [op |-> op, input |-> currentImageUrl])
           /\ IF step.throw
              THEN OperationFailed(step.error)
              ELSE Await(step.cap, step.next, i, currentImageUrl)
    /\ UNCHANGED <<useGeminiNative, directResult, editPlan, seg, made>>
    /\ UNCHANGED otherThanEdit

\* detectAndSegment resumed with the output of run(GROUNDED_SAM), and the
\* caller's code after it, down to the next await.
SegmentationReturns ==
    /\ pc = "seg"
    /\ LET op == Operations[i]
           inner == op.type \in {"resize", "move"}
       IN  \E output \in {"masks", "empty", "error"} :
             IF output = "error"
             THEN /\ OperationFailed(IF inner THEN StringOf(RemoteMsg) ELSE RemoteMsg)
                  /\ UNCHANGED <<seg, made>>
             ELSE LET s == detectAndSegmentResult(output, Fresh(made + 1))
                  IN  /\ seg' = [at |-> i, found |-> s.found, maskUrl |-> s.maskUrl,
                                 bbox |-> s.bbox]
                      /\ made' = IF s.found THEN made + 1 ELSE made
                      /\ CASE op.type = "remove" ->
                                IF SegmentationMissing(s)
                                THEN OperationFailed(CouldNotFind)
                                ELSE Await("LAMA", "worker", i, currentImageUrl)
                           [] op.type = "replace" ->
                                IF SegmentationMissing(s)
                                THEN OperationFailed(CouldNotFind)
                                ELSE Await("SDXL_INPAINT", "worker", i, currentImageUrl)
                           [] op.type = "extract" ->
                                IF SegmentationMissing(s)
                                THEN OperationFailed(CouldNotFindExtract)
                                ELSE OperationReturned(s.maskUrl)
                           [] OTHER ->
                                IF RegionMissing(s)
                                THEN OperationFailed(CouldNotFind)
                                ELSE Await("LAMA", "clean", i, currentImageUrl)
    /\ UNCHANGED <<useGeminiNative, directResult, editPlan, invoked>>
    /\ UNCHANGED otherThanEdit

\* A transform capability (run of LAMA, SDXL_INPAINT, REMBG, IC_LIGHT,
\* REAL_ESRGAN or FLUX_FILL) returned or threw.  In resizeObject / moveObject
\* the cleaned image of removeObject goes to the re-insertion run, and a throw
\* is caught and rethrown by executeOperation from result.error.
WorkerReturns ==
    /\ pc \in {"worker", "clean", "reinsert"}
    /\ \E ok \in BOOLEAN :
         IF ok
         THEN /\ made' = made + 1
              /\ IF pc = "clean"
                 THEN Await("SDXL_INPAINT", "reinsert", i, Fresh(made + 1))
                 ELSE OperationReturned(Fresh(made + 1))
         ELSE /\ made' = made
              /\ OperationFailed(IF pc = "worker" THEN RemoteMsg ELSE StringOf(RemoteMsg))
    /\ UNCHANGED <<useGeminiNative, directResult, editPlan, seg, invoked>>
    /\ UNCHANGED otherThanEdit

\* A reporting capability (detectObjects of case 'detect', describeImage of
\* case 'describe') returned or threw.
ReporterReturns ==
    /\ pc = "report"
    /\ \E ok \in BOOLEAN :
         IF ok
         THEN OperationReturned(ReportOutput(currentImageUrl, made + 1))
         ELSE OperationFailed(RemoteMsg)
    /\ UNCHANGED <<useGeminiNative, directResult, editPlan, seg, invoked, made>>
    /\ UNCHANGED otherThanEdit

Next ==
    \/ Edit
    \/ EditImageReturns
    \/ AnalyzeSceneReturns
    \/ PlanEditReturns
    \/ ExecuteOperation
    \/ SegmentationReturns
    \/ WorkerReturns
    \/ ReporterReturns

Spec == Init /\ [][Next]_vars

----------------------------------------------------------------------------
(* Properties of the operation dispatcher and of the strategy fallback.    *)

\* The image the loop held when operation k started, had everything before
\* it succeeded.
LastGood(k) == IF k = 1 THEN imageUrl ELSE opOutput[k - 1]

CallsOf(k) == {n \in DOMAIN calls : calls[n].i = k}
CountCap(cap) == Cardinality({n \in DOMAIN calls : calls[n].cap = cap})

\* C1: the operations of a plan run one after the other in list order:
\* operation k+1 starts only after operation k returned, the first operation
\* receives the original image, every later one receives exactly the image
\* its predecessor returned, and capability calls are issued in that order.
C1_SequentialInListOrder ==
    /\ Len(invoked) <= Len(opOutput) + 1
    /\ Len(opOutput) <= Len(invoked)
    /\ \A j \in DOMAIN invoked :
         /\ invoked[j].op = Operations[j]
         /\ invoked[j].input = IF j = 1 THEN imageUrl ELSE opOutput[j - 1]
    /\ \A n \in DOMAIN calls :
         /\ calls[n].i <= Len(invoked)
         /\ n > 1 => calls[n - 1].i <= calls[n].i
         /\ (n > 1 /\ calls[n].i >= 1 /\ calls[n - 1].i # calls[n].i)
              => calls[n].image = invoked[calls[n].i].input

C1_Witness ==
    /\ Len(invoked) = 3
    /\ Len(opOutput) = 2
    /\ invoked[2].input # imageUrl
    /\ invoked[3].input # invoked[2].input
    /\ pc = "worker"

\* C2: once operation k has failed, no later operation is invoked and no
\* capability call is issued for any operation after k.
C2_NothingAfterFailure ==
    \A k \in failed :
        /\ Len(invoked) = k
        /\ \A n \in DOMAIN calls : calls[n].i <= k
        /\ pc = "done"

C2_Witness ==
    /\ Len(Operations) = 3
    /\ failed = {2}
    /\ Len(opOutput) = 1
    /\ CallsOf(2) # {}

C4_NotFoundAborts ==
    (seg.at >= 1 /\ ~seg.found) =>
        /\ Operations[seg.at].type \in {"remove", "replace", "resize", "move", "extract"}
        /\ seg.at \in failed
        /\ result.kind = "thrown"
        /\ result.error \in {CouldNotFind, CouldNotFindExtract}
        /\ pc = "done"
        /\ Len(invoked) = seg.at
        /\ currentImageUrl = invoked[seg.at].input
        /\ \A n \in CallsOf(seg.at) : calls[n].cap = "GROUNDED_SAM"

C4_Witness ==
    /\ seg.at = 2
    /\ ~seg.found
    /\ Operations[2].type = "remove"
    /\ currentImageUrl # imageUrl
    /\ result.error = CouldNotFind

\* The fields the operation kinds require.
LacksRequiredField(op) ==
    \/ op.type \in {"remove", "replace", "resize", "move", "extract"} /\ op.target = ""
    \/ op.type = "replace" /\ op.replacement = ""
    \/ op.type = "move" /\ op.newPosition = ""
    \/ op.type = "add" /\ op.element = ""

\* C5: an operation that lacks a field its kind requires fails with a
\* validation error before any capability call is made for it, and the plan
\* stops there.
C5_MissingFieldFailsFast ==
    \A j \in DOMAIN invoked :
        LacksRequiredField(invoked[j].op) =>
            /\ j \in failed
            /\ result.kind = "thrown"
            /\ result.error = RequiresMsg(invoked[j].op.type)
            /\ CallsOf(j) = {}
            /\ Len(invoked) = j
            /\ pc = "done"

C5_Witness ==
    /\ Len(invoked) = 2
    /\ invoked[2].op.type = "replace"
    /\ invoked[2].op.target # ""
    /\ invoked[2].op.replacement = ""
    /\ 2 \in failed

\* C6: a detect or describe operation returns the image it received, so the
\* next operation receives that same image, and a plan of detect / describe
\* operations only returns the original image.
C6_ReportingIsNonMutating ==
    /\ \A j \in DOMAIN opOutput :
         invoked[j].op.type \in {"detect", "describe"} =>
            /\ opOutput[j] = invoked[j].input
            /\ (j + 1) \in DOMAIN invoked => invoked[j + 1].input = invoked[j].input
    /\ ( /\ Len(Operations) > 0
         /\ Len(opOutput) = Len(Operations)
         /\ \A j \in DOMAIN Operations : Operations[j].type \in {"detect", "describe"} )
         => (result.kind = "returned" /\ result.outputUrl = imageUrl)

C6_Witness ==
    /\ Len(Operations) = 3
    /\ \A j \in DOMAIN Operations : Operations[j].type \in {"detect", "describe"}
    /\ Len(opOutput) = 3
    /\ result.kind = "returned"

\* C7: when every operation of a non-empty plan succeeded, edit() returns
\* success with the image the last operation returned and with the plan's
\* operation list, in order and unchanged.
C7_SuccessReturnsFinalImage ==
    (editPlan.returned /\ Len(Operations) > 0 /\ Len(opOutput) = Len(Operations)) =>
        /\ result = Returned(TRUE, opOutput[Len(Operations)], Operations)
        /\ \A j \in DOMAIN Operations : invoked[j].op = Operations[j]
        /\ failed = {}
        /\ pc = "done"

C7_Witness ==
    /\ Len(Operations) = 3
    /\ Len(opOutput) = 3
    /\ result.success
    /\ result.outputUrl = Fresh(made)
    /\ made >= 3

\* C8: a style operation, and an operation of a type outside the vocabulary,
\* fails without any capability call and stops the plan.
C8_StyleIsTerminalError ==
    \A j \in DOMAIN invoked :
        (invoked[j].op.type = "style" \/ invoked[j].op.type \notin Vocabulary) =>
            /\ j \in failed
            /\ result.kind = "thrown"
            /\ result.error \in {StyleMsg, UnknownMsg}
            /\ CallsOf(j) = {}
            /\ Len(invoked) = j
            /\ pc = "done"

C8_Witness ==
    /\ Len(invoked) = 2
    /\ invoked[2].op.type = "style"
    /\ Len(opOutput) = 1
    /\ result.error = StyleMsg

\* C9: one edit() calls editImage at most once and enters the planned
\* pipeline at most once, enters it only with native editing disabled or
\* after editImage returned a failure, returns a direct success without any
\* director or Replicate call, and makes no further attempt after the planned
\* pipeline failed.
C9_FallbackAtMostOnce ==
    /\ CountCap("editImage") <= 1
    /\ CountCap("analyzeScene") <= 1
    /\ CountCap("planEdit") <= 1
    /\ CountCap("analyzeScene") = 1 => (~useGeminiNative \/ directResult = "failure")
    /\ ~useGeminiNative => CountCap("editImage") = 0
    /\ directResult = "success" =>
         /\ calls = <<Call("editImage", 0, imageUrl)>>
         /\ result.kind = "returned" /\ result.success
         /\ pc = "done"
    /\ result.kind # "pending" => pc = "done"

C9_Witness ==
    /\ directResult = "failure"
    /\ CountCap("editImage") = 1
    /\ CountCap("analyzeScene") = 1
    /\ failed = {2}
    /\ result.kind = "thrown"

\* C10: a plan without operations makes the pipeline return, not throw, an
\* unsuccessful result with the original image and an empty operation list,
\* without any segmentation or transform call.
C10_EmptyPlanIsUnsuccessful ==
    (editPlan.returned /\ Len(Operations) = 0) =>
        /\ result = Returned(FALSE, imageUrl, <<>>)
        /\ invoked = <<>>
        /\ \A n \in DOMAIN calls : calls[n].cap \in {"editImage", "analyzeScene", "planEdit"}
        /\ pc = "done"

C10_Witness ==
    /\ editPlan.returned
    /\ Len(Operations) = 0
    /\ directResult = "failure"
    /\ result.kind = "returned"
    /\ ~result.success

----------------------------------------------------------------------------
(* GeminiEditor: the generative-model call of a method and withRetry.      *)
(*                                                                         *)
(* SpecRetry models one model.generateContent call of a GeminiEditor       *)
(* method.  The methods that wrap the call in withRetry run the retry      *)
(* loop; the others await generateContent directly.  The reply of every    *)
(* invocation (a response, or an Error with a message) is chosen by the    *)
(* action that resumes the code.                                           *)

\* Largest maxRetries a GeminiEditorConfig sets in the model.
MaxConfiguredRetries == 4

\* `config.maxRetries ?? 3`
DefaultMaxRetries == 3

\* The values of `this.maxRetries = config.maxRetries ?? 3`: the default when
\* the config leaves it out, else the configured number.
ConfiguredRetries == {DefaultMaxRetries} \cup (0..MaxConfiguredRetries)

Methods ==
    {"editImage", "generateImage", "editWithMask", "editWithReference",
     "editWithMaskAndReferences", "editWithReferences", "segmentAtPoint",
     "segmentByLabel"}

\* The methods whose generateContent call is the operation of a withRetry.
UsesWithRetry(m) ==
    m \in {"editImage", "editWithMask", "editWithMaskAndReferences",
           "editWithReferences"}

\* The operationName argument the method passes to withRetry.
OperationName(m) ==
    CASE m = "editImage" -> "Gemini Edit"
      [] m = "editWithMask" -> "Gemini Masked Edit"
      [] m = "editWithMaskAndReferences" -> "Gemini Masked Edit with References"
      [] m = "editWithReferences" -> "Gemini Edit with References"
      [] OTHER -> ""

\* Messages of the errors generateContent throws ("": an error without one).
ErrorMessages ==
    {"[500 Internal Server Error] An internal error has occurred",
     "[503 Service Unavailable] The service is currently unavailable",
     "The model is overloaded. Please try again later.",
     "[429 Too Many Requests] Resource has been exhausted, retry after 7s",
     "[429 Too Many Requests] Quota of 500 requests per day exceeded",
     "[502 Bad Gateway]",
     "[400 Bad Request] Invalid argument",
     ""}

\* String.prototype.includes
Includes(str, pattern) ==
    \E k \in 1..(Len(str) - Len(pattern) + 1) :
        SubSeq(str, k, k + Len(pattern) - 1) = pattern

\* Faulty variant: the rate-limit status is a retryable signature too.
IsRetryableWith429(message) ==
    \/ Includes(message, "500")
    \/ Includes(message, "503")
    \/ Includes(message, "429")
    \/ Includes(message, "Internal Server Error")
    \/ Includes(message, "Service Unavailable")
    \/ Includes(message, "overloaded")
\* const isRetryable = error.message?.includes('500') || ...
IsRetryable(message) ==
    \/ Includes(message, "500")
    \/ Includes(message, "503")
    \/ Includes(message, "Internal Server Error")
    \/ Includes(message, "Service Unavailable")
    \/ Includes(message, "overloaded")

\* Faulty variant: the last attempt is given up one attempt early.
GivesUpEarly(retryable, n, max) == ~retryable \/ n >= max - 1
\* Faulty variant: only the attempt number is looked at.
GivesUpWhenExhausted(retryable, n, max) == n = max
\* `if (!isRetryable || attempt === this.maxRetries) throw error`
GivesUp(retryable, n, max) == ~retryable \/ n = max

\* Faulty variant: linear backoff.
DelayLinear(n) == n * 1000
\* `const delay = Math.pow(2, attempt - 1) * 1000`
Delay(n) == (2 ^ (n - 1)) * 1000

\* Faulty variant: the error is wrapped in one that names the operation.
RethrownAnnotated(message, operationName) == operationName \o " failed: " \o message
\* `throw error`: the caught error itself.
Rethrown(message, operationName) == message

\* `throw lastError || new Error('Max retries exceeded')` after the loop.
AfterLoop(last) == IF last # "" THEN last ELSE "Max retries exceeded"

\* The response generateContent resolves with at its n-th invocation.
Response(n) == "response " \o ToString(n)

\* Faulty variant: the result of the operation is dropped.
RetryReturnedNothing(value) == [kind |-> "returned", value |-> "", error |-> ""]
\* `return await operation()`
RetryReturned(value) == [kind |-> "returned", value |-> value, error |-> ""]
RetryThrown(message) == [kind |-> "thrown", value |-> "", error |-> message]

\* The head of the for loop: invoke operation() or leave the loop.
LoopHead(n, last) ==
    IF n <= maxRetries
    THEN /\ invocations' = invocations + 1
         /\ rpc' = "operation"
         /\ retryOutcome' = retryOutcome
    ELSE /\ invocations' = invocations
         /\ rpc' = "done"
         /\ retryOutcome' = RetryThrown(AfterLoop(last))

InitRetry ==
    /\ EditIdle
    /\ ResolverIdle
    /\ CompositeIdle
    /\ ParserIdle
    /\ PollIdle
    /\ ImageRefIdle
    /\ EditImageIdle
    /\ UploadIdle
    /\ EditRouteIdle
    /\ method \in Methods
    /\ maxRetries \in ConfiguredRetries
    /\ attempt = 0
    /\ rpc = "start"
    /\ invocations = 0
    /\ raised = <<>>
    /\ sleeps = <<>>
    /\ lastError = ""
    /\ retryOutcome = NoOutcome

\* The method reaches its generateContent call: through withRetry (lastError
\* = null, attempt = 1, loop head), or directly.
GenerateContent ==
    /\ rpc = "start"
    /\ IF UsesWithRetry(method)
       THEN /\ attempt' = 1
            /\ LoopHead(1, "")
       ELSE /\ attempt' = attempt
            /\ invocations' = invocations + 1
            /\ rpc' = "operation"
            /\ retryOutcome' = retryOutcome
    /\ UNCHANGED <<method, maxRetries, raised, sleeps, lastError>>
    /\ UNCHANGED otherThanRetry

\* operation() resolved: `return await operation()`.
OperationResolves ==
    /\ rpc = "operation"
    /\ retryOutcome' = RetryReturned(Response(invocations))
    /\ rpc' = "done"
    /\ UNCHANGED <<method, maxRetries, attempt, invocations, raised, sleeps, lastError>>
    /\ UNCHANGED otherThanRetry

\* operation() rejected: the catch block of withRetry, or, without withRetry,
\* the error reaches the method's own catch at once.
OperationRejects ==
    /\ rpc = "operation"
    /\ \E message \in ErrorMessages :
         /\ raised' = Append(raised, message)
         /\ IF UsesWithRetry(method)
            THEN /\ lastError' = message
                 /\ IF GivesUp(IsRetryable(message), attempt, maxRetries)
                    THEN /\ retryOutcome' = RetryThrown(Rethrown(message, OperationName(method)))
                         /\ rpc' = "done"
                         /\ sleeps' = sleeps
                    ELSE /\ sleeps' = Append(sleeps, Delay(attempt))
                         /\ rpc' = "sleep"
                         /\ retryOutcome' = retryOutcome
            ELSE /\ retryOutcome' = RetryThrown(message)
                 /\ rpc' = "done"
                 /\ UNCHANGED <<lastError, sleeps>>
    /\ UNCHANGED <<method, maxRetries, attempt, invocations>>
    /\ UNCHANGED otherThanRetry

\* The setTimeout of the backoff fired: attempt++ and the loop head.
SleepEnds ==
    /\ rpc = "sleep"
    /\ attempt' = attempt + 1
    /\ LoopHead(attempt + 1, lastError)
    /\ UNCHANGED <<method, maxRetries, raised, sleeps, lastError>>
    /\ UNCHANGED otherThanRetry

NextRetry ==
    \/ GenerateContent
    \/ OperationResolves
    \/ OperationRejects
    \/ SleepEnds

SpecRetry == InitRetry /\ [][NextRetry]_vars

----------------------------------------------------------------------------
(* Claims about withRetry, checked under SpecRetry.                        *)

\* Every error raised so far carries one of the retryable signatures.
AllTransient == \A k \in 1..Len(raised) : IsRetryable(raised[k])

\* withRetry ended by throwing.
RetryGaveUp == rpc = "done" /\ retryOutcome.kind = "thrown"

\* C11: with at least one attempt configured and an operation that fails with
\* a retryable error at every attempt, withRetry never invokes the operation
\* more than maxRetries times, and when it throws it has invoked it exactly
\* maxRetries times and throws the error of the last invocation.
C11_RetryBound ==
    (UsesWithRetry(method) /\ maxRetries >= 1 /\ AllTransient) =>
        /\ invocations <= maxRetries
        /\ RetryGaveUp =>
             /\ invocations = maxRetries
             /\ Len(raised) = maxRetries
             /\ retryOutcome.error = raised[maxRetries]

C11_Witness ==
    /\ UsesWithRetry(method)
    /\ maxRetries = 3
    /\ AllTransient
    /\ RetryGaveUp
    /\ invocations = 3
    /\ raised[1] # raised[3]
    /\ retryOutcome.error = raised[3]

\* C12: once an attempt of withRetry fails with an error that carries no
\* retryable signature, withRetry has thrown that very error: the operation
\* has been invoked once per failure and not again, and the only sleeps are
\* those that followed the earlier failures.
C12_FatalPropagatesImmediately ==
    (UsesWithRetry(method) /\ Len(raised) >= 1 /\ ~IsRetryable(raised[Len(raised)])) =>
        /\ RetryGaveUp
        /\ retryOutcome.error = raised[Len(raised)]
        /\ invocations = Len(raised)
        /\ Len(sleeps) = Len(raised) - 1

C12_Witness ==
    /\ UsesWithRetry(method)
    /\ maxRetries = 3
    /\ raised = <<"[400 Bad Request] Invalid argument">>
    /\ RetryGaveUp
    /\ invocations = 1
    /\ sleeps = <<>>

\* C13: when withRetry returns, the value is the response of the last
\* invocation, every earlier invocation failed with a retryable error, the
\* operation was invoked exactly once more than it failed (k times for k-1
\* failures, k <= maxRetries), and one sleep was taken per failure, none
\* after the success.
C13_FirstSuccessReturns ==
    (UsesWithRetry(method) /\ rpc = "done" /\ retryOutcome.kind = "returned") =>
        /\ retryOutcome.value = Response(Len(raised) + 1)
        /\ AllTransient
        /\ invocations = Len(raised) + 1
        /\ invocations <= maxRetries
        /\ Len(sleeps) = Len(raised)

C13_Witness ==
    /\ UsesWithRetry(method)
    /\ rpc = "done"
    /\ retryOutcome = RetryReturned(Response(3))
    /\ Len(raised) = 2
    /\ invocations = 3
    /\ Len(sleeps) = 2

\* C14: the k-th sleep of withRetry lasts 1000 * 2^(k-1) ms (1 s, 2 s, 4 s),
\* each sleep twice the one before; at most maxRetries - 1 sleeps are taken,
\* and when withRetry throws, no sleep followed the last failure.
C14_DoublingBackoff ==
    UsesWithRetry(method) =>
        /\ \A k \in 1..Len(sleeps) :
             /\ sleeps[k] = 1000 * (2 ^ (k - 1))
             /\ k > 1 => sleeps[k] = 2 * sleeps[k - 1]
        /\ maxRetries >= 1 => Len(sleeps) <= maxRetries - 1
        /\ RetryGaveUp => Len(sleeps) = Len(raised) - (IF raised = <<>> THEN 0 ELSE 1)

C14_Witness ==
    /\ UsesWithRetry(method)
    /\ maxRetries = 4
    /\ RetryGaveUp
    /\ Len(raised) = 4
    /\ sleeps = <<1000, 2000, 4000>>

\* The failure is a rate-limit rejection of the service.
IsRateLimit(message) == Includes(message, "429") \/ Includes(message, "Too Many Requests")

\* The messages that carry '500', '503', 'Internal Server Error', 'Service
\* Unavailable' or 'overloaded' somewhere in their text.
SignatureMessages ==
    {"[500 Internal Server Error] An internal error has occurred",
     "[503 Service Unavailable] The service is currently unavailable",
     "The model is overloaded. Please try again later.",
     "[429 Too Many Requests] Quota of 500 requests per day exceeded"}

Exhausted ==
    /\ UsesWithRetry(method)
    /\ RetryGaveUp
    /\ maxRetries >= 1
    /\ Len(raised) = maxRetries
    /\ AllTransient

\* C16 (as stated): the error thrown on exhaustion names the operation that
\* was passed to withRetry.
C16_ExhaustionNamesOperation ==
    Exhausted => Includes(retryOutcome.error, OperationName(method))

\* C16 (amended): the error thrown on exhaustion is the error of the last
\* attempt, unchanged: its message is the one the operation raised and does
\* not carry the operation name.
C16_ExhaustionRethrowsUnchanged ==
    Exhausted =>
        /\ retryOutcome.error = raised[maxRetries]
        /\ ~Includes(retryOutcome.error, OperationName(method))

C16_Witness ==
    /\ Exhausted
    /\ method = "editWithMask"
    /\ maxRetries = 3
    /\ retryOutcome.error = "[503 Service Unavailable] The service is currently unavailable"
    /\ raised[1] # raised[3]

\* C17: with the default maxRetries, the generateContent call of every
\* GeminiEditor method runs under the retry loop: when the call ended with an
\* error and every failure was retryable, the call was attempted
\* DefaultMaxRetries times.
C17_EveryCallUnderRetry ==
    (/\ maxRetries = DefaultMaxRetries
     /\ RetryGaveUp
     /\ Len(raised) >= 1
     /\ AllTransient) => invocations = DefaultMaxRetries

----------------------------------------------------------------------------
(* ReplicateClient: the segmentation resolver.                             *)
(*                                                                         *)
(* SpecResolver models one call of detectAndSegment, detectAndSegmentLegacy *)
(* or detectObjects.  run(model, input) is one remote step that resolves   *)
(* with the model's output or rejects; the outputs are those the code      *)
(* branches on.  Confidences and box coordinates are in hundredths.        *)

\* Largest number of candidates a remote output carries in the model.
MaxCandidates == 3

\* `confidence: 0.95` of detectAndSegment, in hundredths.
AssumedConfidence == 95

Resolvers == {"detectAndSegment", "detectAndSegmentLegacy", "detectObjects"}

Labels == {"", " ", "  ", "mug", " mug "}

ImageSources == {"https://example.com/room.jpg", "data:image/png;base64,AAAA"}

\* Confidences a detection carries (above box_threshold 0.3).
Confidences == {40, 80}

MaskUrls == {"https://replicate.delivery/mask.jpg", "https://replicate.delivery/neg_mask.jpg"}

\* The white space of the texts: space, line feed, carriage return, tab.
IsSpace(ch) == ch \in {" ", "\n", "\r", "\t"}

\* String.prototype.trim
RECURSIVE Trim(_)
Trim(str) ==
    IF str = "" THEN ""
    ELSE IF IsSpace(SubSeq(str, 1, 1)) THEN Trim(SubSeq(str, 2, Len(str)))
    ELSE IF IsSpace(SubSeq(str, Len(str), Len(str))) THEN Trim(SubSeq(str, 1, Len(str) - 1))
    ELSE str

\* Faulty variant: only the falsy label is rejected, not the blank one.
LabelRejectedFalsyOnly(objectLabel) == objectLabel = ""
\* `!objectLabel || typeof objectLabel !== 'string' || objectLabel.trim() === ''`
LabelRejected(objectLabel) == objectLabel = "" \/ Trim(objectLabel) = ""

\* The message of the validation error of each resolver.
ValidationMsg(name, objectLabel) ==
    (IF name = "detectObjects"
     THEN "detectObjects requires a non-empty prompt/target string. "
     ELSE name \o " requires a non-empty objectLabel. ")
    \o "Received: \"" \o objectLabel \o "\""

\* source.startsWith('http://') || source.startsWith('https://')
IsHttp(source) ==
    \/ (Len(source) >= 7 /\ SubSeq(source, 1, 7) = "http://")
    \/ (Len(source) >= 8 /\ SubSeq(source, 1, 8) = "https://")

\* The k-th box of an output with n candidates: [x1, y1, x2, y2].
Boxes(n) == [k \in 1..n |-> <<10 * k, 10 * k, 10 * k + 5, 10 * k + 5>>]

\* Outputs of GROUNDING_DINO: the current format (detections with bbox and
\* confidence), the legacy format (boxes with or without scores), or another
\* object.
DinoOutputs ==
    {[format |-> f, boxes |-> Boxes(Len(sc)), scores |-> sc, scored |-> TRUE] :
        f \in {"detections", "arrays"},
        sc \in UNION {[1..n -> Confidences] : n \in 0..MaxCandidates}}
    \cup {[format |-> "arrays", boxes |-> Boxes(n), scores |-> <<>>, scored |-> FALSE] :
            n \in 0..MaxCandidates}
    \cup {[format |-> "other", boxes |-> <<>>, scores |-> <<>>, scored |-> FALSE]}


\* Outputs of GROUNDED_SAM: an array of mask URLs, a single string, or
\* something else.
GroundedSamOutputs ==
    {[type |-> "array", items |-> it, text |-> ""] :
        it \in {<<>>, <<"">>} \cup
               UNION {[1..n -> MaskUrls] : n \in 1..(MaxCandidates - 1)}}
    \cup {[type |-> "string", items |-> <<>>, text |-> t] : t \in MaskUrls \cup {""}}
    \cup {[type |-> "object", items |-> <<>>, text |-> ""]}

\* The return value of detectObjects for a raw output.
detectObjectsResult(rawOutput) ==
    IF rawOutput.format = "detections"
    THEN [boxes |-> rawOutput.boxes, scores |-> rawOutput.scores]
    ELSE IF rawOutput.format = "arrays"
    THEN [boxes |-> rawOutput.boxes,
          scores |-> IF rawOutput.scored THEN rawOutput.scores ELSE <<>>]
    ELSE [boxes |-> <<>>, scores |-> <<>>]

\* A resolver result; fields holds the keys the object literal has.
NotFound ==
    [found |-> FALSE, fields |-> {"found"}, maskUrl |-> "", confidence |-> 0,
     bbox |-> <<>>]
Found(maskUrl, confidence) ==
    [found |-> TRUE, fields |-> {"found", "maskUrl", "confidence"},
     maskUrl |-> maskUrl, confidence |-> confidence, bbox |-> <<>>]
FoundWithBox(box, maskUrl, confidence) ==
    [found |-> TRUE, fields |-> {"found", "bbox", "maskUrl", "confidence"},
     maskUrl |-> maskUrl, confidence |-> confidence, bbox |-> box]

\* Faulty variant: the first element is used whatever it is.
GroundedSamResultUnchecked(output) ==
    Found(IF output.type = "array" /\ output.items # <<>> THEN output.items[1]
          ELSE output.text, AssumedConfidence)
\* detectAndSegment after run(GROUNDED_SAM) resolved with output.
GroundedSamResult(output) ==
    IF output.type = "array" /\ output.items = <<>> THEN NotFound
    ELSE IF output.type \notin {"array", "string"} THEN NotFound
    ELSE LET maskUrl == IF output.type = "array" THEN output.items[1] ELSE output.text
         IN  IF maskUrl = "" THEN NotFound ELSE Found(maskUrl, AssumedConfidence)

\* Math.max(...scores); of no scores it is -Infinity, which is no score.
MaxScore(scores) ==
    CHOOSE m \in {scores[k] : k \in 1..Len(scores)} :
        \A k \in 1..Len(scores) : scores[k] <= m

\* scores.indexOf(Math.max(...scores)), counted from 1; 0 stands for the -1
\* of a value that is not in the array.
BestIdx(scores) ==
    IF scores = <<>> THEN 0
    ELSE CHOOSE k \in 1..Len(scores) :
            /\ scores[k] = MaxScore(scores)
            /\ \A j \in 1..(k - 1) : scores[j] # MaxScore(scores)

TypeErrorMsg == "TypeError: Cannot read properties of undefined (reading '0')"


Resolved(value) == [kind |-> "returned", value |-> value, error |-> ""]
Rejected(message) == [kind |-> "thrown", value |-> "", error |-> message]

\* A remote call: a fetch of the image or a run of a model on an image.
Remote(call, image) == [call |-> call, image |-> image]

\* The data URL detectObjects builds from the fetched bytes of an image.
DataUrlOf(source) == "data:image/jpeg;base64,BBBB"

InitResolver ==
    /\ EditIdle
    /\ RetryIdle
    /\ CompositeIdle
    /\ ParserIdle
    /\ PollIdle
    /\ ImageRefIdle
    /\ EditImageIdle
    /\ UploadIdle
    /\ EditRouteIdle
    /\ resolver \in Resolvers
    /\ label \in Labels
    /\ imageSource \in ImageSources
    /\ spc = "start"
    /\ detection = <<>>
    /\ remoteCalls = <<>>
    /\ received = <<>>
    /\ resolved = NoOutcome

\* The resolver up to its first await: the validation of the label, then
\* the run of GROUNDED_SAM (detectAndSegment) or detectObjects' fetch of an
\* http image or run of GROUNDING_DINO.  resolveImageSource returns URLs and
\* data URLs as they are.
ResolverCall ==
    /\ spc = "start"
    /\ IF LabelRejected(label)
       THEN /\ resolved' = Rejected(ValidationMsg(resolver, label))
            /\ spc' = "done"
            /\ remoteCalls' = remoteCalls
       ELSE /\ resolved' = resolved
            /\ IF resolver = "detectAndSegment"
               THEN /\ remoteCalls' = Append(remoteCalls, Remote("GROUNDED_SAM", imageSource))
                    /\ spc' = "grounded_sam"
               ELSE IF IsHttp(imageSource)
               THEN /\ remoteCalls' = Append(remoteCalls, Remote("fetch", imageSource))
                    /\ spc' = "fetch"
               ELSE /\ remoteCalls' = Append(remoteCalls, Remote("GROUNDING_DINO", imageSource))
                    /\ spc' = "dino"
    /\ UNCHANGED <<resolver, label, imageSource, detection, received>>
    /\ UNCHANGED otherThanResolver

\* detectObjects' fetch of the image ended: converted to a data URL, or, the
\* failure being caught, the URL is kept; then GROUNDING_DINO is run.
FetchReturns ==
    /\ spc = "fetch"
    /\ \E ok \in BOOLEAN :
         remoteCalls' = Append(remoteCalls,
             Remote("GROUNDING_DINO", IF ok THEN DataUrlOf(imageSource) ELSE imageSource))
    /\ spc' = "dino"
    /\ UNCHANGED <<resolver, label, imageSource, detection, received, resolved>>
    /\ UNCHANGED otherThanResolver


\* The bbox object detectAndSegmentLegacy builds from box[0..3].
BboxOf(box) == [x1 |-> box[1], y1 |-> box[2], x2 |-> box[3], y2 |-> box[4]]

\* run(GROUNDING_DINO) resolved: detectObjects returns; detectAndSegmentLegacy
\* goes on to pick the best box and to run SAM on it.  With no score in the
\* array bestIdx is -1, boxes[-1] is undefined and box[0] throws.
DinoReturns ==
    /\ spc = "dino"
    /\ \E raw \in DinoOutputs :
         LET d == detectObjectsResult(raw)
         IN  /\ received' = raw
             /\ detection' = d
             /\ IF resolver = "detectObjects"
                THEN /\ resolved' = Resolved(d)
                     /\ spc' = "done"
                     /\ remoteCalls' = remoteCalls
                ELSE IF Len(d.boxes) = 0
                THEN /\ resolved' = Resolved(NotFound)
                     /\ spc' = "done"
                     /\ remoteCalls' = remoteCalls
                ELSE IF BestIdx(d.scores) = 0
                THEN /\ resolved' = Rejected(TypeErrorMsg)
                     /\ spc' = "done"
                     /\ remoteCalls' = remoteCalls
                ELSE /\ resolved' = resolved
                     /\ spc' = "sam"
                     /\ remoteCalls' = Append(remoteCalls, Remote("SAM", imageSource))
    /\ UNCHANGED <<resolver, label, imageSource>>
    /\ UNCHANGED otherThanResolver

\* run(SAM) resolved with { combined_mask }: generateMask returns it and
\* detectAndSegmentLegacy returns the result.
SamReturns ==
    /\ spc = "sam"
    /\ \E combined_mask \in MaskUrls :
         LET bestIdx == BestIdx(detection.scores)
         IN  resolved' = Resolved(FoundWithBox(BboxOf(detection.boxes[bestIdx]),
                                               combined_mask,
                                               detection.scores[bestIdx]))
    /\ spc' = "done"
    /\ UNCHANGED <<resolver, label, imageSource, detection, remoteCalls, received>>
    /\ UNCHANGED otherThanResolver

\* run(GROUNDED_SAM) resolved: detectAndSegment returns.
GroundedSamReturns ==
    /\ spc = "grounded_sam"
    /\ \E raw \in GroundedSamOutputs :
         /\ received' = raw
         /\ resolved' = Resolved(GroundedSamResult(raw))
    /\ spc' = "done"
    /\ UNCHANGED <<resolver, label, imageSource, detection, remoteCalls>>
    /\ UNCHANGED otherThanResolver

\* run rejected (failed prediction, timeout, HTTP error): the resolver throws.
RunRejects ==
    /\ spc \in {"dino", "sam", "grounded_sam"}
    /\ resolved' = Rejected(RemoteMsg)
    /\ spc' = "done"
    /\ UNCHANGED <<resolver, label, imageSource, detection, remoteCalls, received>>
    /\ UNCHANGED otherThanResolver

NextResolver ==
    \/ ResolverCall
    \/ FetchReturns
    \/ DinoReturns
    \/ SamReturns
    \/ GroundedSamReturns
    \/ RunRejects

SpecResolver == InitResolver /\ [][NextResolver]_vars

----------------------------------------------------------------------------
(* Claims about the segmentation resolver, checked under SpecResolver.     *)

\* The empty and the whitespace-only labels of the model.
BlankLabels == {"", " ", "  "}

\* C18: a resolver called with an empty or whitespace-only label issues no
\* remote call at all (no image fetch, no run of a model), and once it has
\* been entered it has thrown its validation error.
C18_BlankLabelFailsBeforeRemote ==
    (resolver \in Resolvers /\ label \in BlankLabels) =>
        /\ remoteCalls = <<>>
        /\ spc # "start" =>
             /\ spc = "done"
             /\ resolved.kind = "thrown"
             /\ resolved.error = ValidationMsg(resolver, label)

C18_Witness ==
    /\ resolver = "detectAndSegmentLegacy"
    /\ label = "  "
    /\ IsHttp(imageSource)
    /\ spc = "done"
    /\ resolved.kind = "thrown"
    /\ remoteCalls = <<>>

\* The resolvers that return a segmentation result.
Segmenters == {"detectAndSegment", "detectAndSegmentLegacy"}

\* The first run of the resolver resolved, with an output of no candidate:
\* no mask (detectAndSegment) or no box (detectAndSegmentLegacy).
ZeroCandidates ==
    /\ received # <<>>
    /\ \/ resolver = "detectAndSegment" /\ received.type = "array" /\ received.items = <<>>
       \/ resolver = "detectAndSegmentLegacy" /\ received.boxes = <<>>

\* found = false carries nothing else; found = true carries a non-empty mask
\* reference and a confidence.
WellFormed(r) ==
    IF r.found
    THEN /\ {"maskUrl", "confidence"} \subseteq r.fields
         /\ r.maskUrl # ""
         /\ r.confidence > 0
    ELSE r.fields = {"found"}

ExpectedIdx ==
    IF received.scored
    THEN CHOOSE k \in 1..Len(received.scores) :
            /\ \A j \in 1..Len(received.scores) : received.scores[j] <= received.scores[k]
            /\ \A j \in 1..(k - 1) : received.scores[j] < received.scores[k]
    ELSE 1

\* C20: when the remote call yields one or more candidates and no later
\* remote call fails, the resolver returns found = true for exactly one of
\* them: detectAndSegment for the first mask returned, detectAndSegmentLegacy
\* for the highest-confidence box, the first one on a tie or when the output
\* carries no confidence.
C20_SelectsOneCandidate ==
    (/\ resolver \in Segmenters
     /\ spc = "done"
     /\ received # <<>>
     /\ resolved.error # RemoteMsg) =>
        /\ (/\ resolver = "detectAndSegment"
            /\ received.type = "array"
            /\ received.items # <<>>
            /\ received.items[1] # "") =>
               /\ resolved.kind = "returned"
               /\ resolved.value.found
               /\ resolved.value.maskUrl = received.items[1]
        /\ (/\ resolver = "detectAndSegmentLegacy"
            /\ received.boxes # <<>>) =>
               /\ resolved.kind = "returned"
               /\ resolved.value.found
               /\ resolved.value.bbox = BboxOf(received.boxes[ExpectedIdx])

----------------------------------------------------------------------------
(* Web server: compositeMaskedEdit.                                        *)
(*                                                                         *)
(* SpecComposite models one call of compositeMaskedEdit on decoded images. *)
(* An image is its width, height, channel count and raw bytes, pixel after *)
(* pixel in row order.  The image library's resize is modelled as nearest- *)
(* neighbour sampling; like every resampling kernel it maps an image of    *)
(* one colour to the same colour.  The images are colour images, RGB or    *)
(* RGBA, the two layouts the pixel loop reads.                             *)

\* Largest number of pixels of an image in the model.
MaxPixels == 2

Sizes ==
    {size \in (1..MaxPixels) \X (1..MaxPixels) : size[1] * size[2] <= MaxPixels}

\* The pixels an image of c channels is made of: RGB or RGBA.
PixelsOf(c) ==
    IF c = 3
    THEN {<<10, 20, 30>>, <<200, 100, 50>>}
    ELSE {<<10, 20, 30, 255>>, <<200, 100, 50, 128>>}

\* The pixels of a mask painted on a canvas: opaque black, grey or white.
MaskPixels == {<<0, 0, 0, 255>>, <<128, 128, 128, 255>>, <<255, 255, 255, 255>>}

RECURSIVE Flatten(_)
Flatten(pixels) ==
    IF pixels = <<>> THEN <<>> ELSE Head(pixels) \o Flatten(Tail(pixels))

ImagesOf(c, palette) ==
    {[width |-> size[1], height |-> size[2], channels |-> c, data |-> Flatten(pixels)] :
        size \in Sizes, pixels \in UNION {[1..n -> palette] : n \in 1..MaxPixels}}

\* Only the images whose data has width * height pixels.
WellSized(images) ==
    {img \in images : Len(img.data) = img.width * img.height * img.channels}

Originals == WellSized(ImagesOf(3, PixelsOf(3)) \cup ImagesOf(4, PixelsOf(4)))
\* The pixels of an edited image of c channels.
EditedPixelsOf(c) ==
    IF c = 3
    THEN {<<60, 70, 80>>, <<250, 240, 230>>}
    ELSE {<<60, 70, 80, 255>>, <<250, 240, 230, 64>>}

Editeds == WellSized(ImagesOf(3, EditedPixelsOf(3)) \cup ImagesOf(4, EditedPixelsOf(4)))
Masks == WellSized(ImagesOf(4, MaskPixels))

\* The k-th pixel of an image, k counted from 0.
PixelAt(img, k) == SubSeq(img.data, k * img.channels + 1, (k + 1) * img.channels)

\* sharp(buffer).resize(w, h, { fit: 'fill' }): the image stretched to w x h.
Resize(img, w, h) ==
    [width |-> w, height |-> h, channels |-> img.channels,
     data |-> Flatten([k \in 1..(w * h) |->
                 PixelAt(img, (((((k - 1) \div w) * img.height) \div h) * img.width)
                              + ((((k - 1) % w) * img.width) \div w))])]

\* .grayscale().raw(): one byte per pixel, the luminance of its colour.
GreyRaw(img) ==
    [k \in 1..(img.width * img.height) |->
        LET p == PixelAt(img, k - 1)
        IN  (299 * p[1] + 587 * p[2] + 114 * p[3]) \div 1000]

\* .ensureAlpha().raw(): four bytes per pixel, an added alpha being opaque.
EnsureAlphaRaw(img) ==
    Flatten([k \in 1..(img.width * img.height) |->
        LET p == PixelAt(img, k - 1)
        IN  IF img.channels = 4 THEN p ELSE p \o <<255>>])


\* buffer[idx], idx counted from 0.
ByteAt(buffer, idx) == IF idx < Len(buffer) THEN buffer[idx + 1] ELSE Undefined

\* Faulty variant: the edited buffer is always read three bytes per pixel.
EditedOffsetRgbOnly(k, nchannels) == k * 3
\* `if (editedChannels === 4) editedResized[i * 4] else editedResized[i * 3]`
EditedOffset(k, nchannels) == IF nchannels = 4 THEN k * 4 ELSE k * 3

\* Faulty variant: the quotient is cut off instead of rounded.
BlendByteTruncated(orig, edit, maskValue) ==
    IF Undefined \in {orig, edit, maskValue} THEN 0
    ELSE (orig * (255 - maskValue) + edit * maskValue) \div 255
\* Faulty variant: the mask is read the other way round.
BlendByteInverted(orig, edit, maskValue) ==
    IF Undefined \in {orig, edit, maskValue} THEN 0
    ELSE (2 * (edit * (255 - maskValue) + orig * maskValue) + 255) \div 510
\* output[j] = Math.round(orig * (1 - blend) + edit * blend) with blend =
\* maskValue / 255.  The sum is never half-way between two integers, so the
\* rounding is that of the exact quotient; an undefined operand makes the
\* sum NaN, which a Buffer stores as 0.
BlendByte(orig, edit, maskValue) ==
    IF Undefined \in {orig, edit, maskValue} THEN 0
    ELSE (2 * (orig * (255 - maskValue) + edit * maskValue) + 255) \div 510

\* Faulty variant: the alpha is blended like a colour channel.
OutAlphaBlended(origA, editA, maskValue) == BlendByte(origA, editA, maskValue)
\* `output[i * 4 + 3] = origA`, a Buffer storing undefined as 0.
OutAlpha(origA, editA, maskValue) == IF origA = Undefined THEN 0 ELSE origA

\* The four bytes the loop body writes for pixel k (counted from 0).
OutputPixel(k) ==
    LET maskValue == ByteAt(maskResized, k)
        e == EditedOffset(k, editedChannels)
    IN  <<BlendByte(ByteAt(originalRaw, k * 4), ByteAt(editedResized, e), maskValue),
          BlendByte(ByteAt(originalRaw, k * 4 + 1), ByteAt(editedResized, e + 1), maskValue),
          BlendByte(ByteAt(originalRaw, k * 4 + 2), ByteAt(editedResized, e + 2), maskValue),
          OutAlpha(ByteAt(originalRaw, k * 4 + 3), ByteAt(editedResized, e + 3), maskValue)>>

InitComposite ==
    /\ EditIdle
    /\ RetryIdle
    /\ ResolverIdle
    /\ ParserIdle
    /\ PollIdle
    /\ ImageRefIdle
    /\ EditImageIdle
    /\ UploadIdle
    /\ EditRouteIdle
    /\ originalImage \in Originals
    /\ editedImage \in Editeds
    /\ maskImage \in Masks
    /\ cpc = "start"
    /\ editedResized = <<>>
    /\ maskResized = <<>>
    /\ originalRaw = <<>>
    /\ editedChannels = 0
    /\ px = 0
    /\ outBuf = <<>>
    /\ composite = NoImage

\* compositeMaskedEdit up to its pixel loop: the metadata of the original,
\* the three raw buffers, editedChannels and the zero-filled output buffer.
CompositeCall ==
    /\ cpc = "start"
    /\ LET origWidth == originalImage.width
           origHeight == originalImage.height
       IN  /\ editedResized' = Resize(editedImage, origWidth, origHeight).data
           /\ maskResized' = GreyRaw(Resize(maskImage, origWidth, origHeight))
           /\ originalRaw' = EnsureAlphaRaw(originalImage)
           /\ outBuf' = [j \in 1..(origWidth * origHeight * 4) |-> 0]
    /\ editedChannels' = IF editedImage.channels = 0 THEN 3 ELSE editedImage.channels
    /\ px' = 0
    /\ cpc' = "loop"
    /\ UNCHANGED <<originalImage, editedImage, maskImage, composite>>
    /\ UNCHANGED otherThanComposite

\* One iteration of `for (let i = 0; i < origWidth * origHeight; i++)`.
BlendPixel ==
    /\ cpc = "loop"
    /\ px < originalImage.width * originalImage.height
    /\ outBuf' = [j \in 1..Len(outBuf) |->
                    IF j > px * 4 /\ j <= px * 4 + 4
                    THEN OutputPixel(px)[j - px * 4]
                    ELSE outBuf[j]]
    /\ px' = px + 1
    /\ UNCHANGED <<originalImage, editedImage, maskImage, cpc, editedResized,
                   maskResized, originalRaw, editedChannels, composite>>
    /\ UNCHANGED otherThanComposite

\* The loop is over: the output buffer is encoded as an RGBA PNG of the
\* original's size and returned as a data URL.
Encode ==
    /\ cpc = "loop"
    /\ px >= originalImage.width * originalImage.height
    /\ composite' = [width |-> originalImage.width, height |-> originalImage.height,
                     channels |-> 4, data |-> outBuf]
    /\ cpc' = "done"
    /\ UNCHANGED <<originalImage, editedImage, maskImage, editedResized, maskResized,
                   originalRaw, editedChannels, px, outBuf>>
    /\ UNCHANGED otherThanComposite

NextComposite ==
    \/ CompositeCall
    \/ BlendPixel
    \/ Encode

SpecComposite == InitComposite /\ [][NextComposite]_vars

----------------------------------------------------------------------------
(* Claims about compositeMaskedEdit, checked under SpecComposite.          *)

\* Every pixel of the mask has the grey value v.
MaskIs(v) ==
    \A k \in 0..(maskImage.width * maskImage.height - 1) :
        PixelAt(maskImage, k) = <<v, v, v, 255>>

\* The k-th pixel of the original as RGBA, opaque when it has no alpha.
OriginalRgba(k) ==
    LET p == PixelAt(originalImage, k)
    IN  IF originalImage.channels = 4 THEN p ELSE <<p[1], p[2], p[3], 255>>

PixelCount == originalImage.width * originalImage.height

\* C21: with a mask that is 0 at every pixel, every pixel of the composite
\* (R, G, B and alpha) is the pixel of the original at the same place.
C21_ZeroMaskIsIdentity ==
    (cpc = "done" /\ MaskIs(0)) =>
        \A k \in 0..(PixelCount - 1) : PixelAt(composite, k) = OriginalRgba(k)

C21_Witness ==
    /\ cpc = "done"
    /\ MaskIs(0)
    /\ PixelCount = 2
    /\ editedImage.width * editedImage.height = 1
    /\ PixelAt(composite, 0) # PixelAt(composite, 1)

\* C22: with a mask that is 255 at every pixel, R, G and B of every pixel of
\* the composite are those of the edited image resampled to the original's
\* size, for an RGB and for an RGBA edited image, and the alpha is the
\* original's.
C22_FullMaskTakesEdited ==
    (cpc = "done" /\ MaskIs(255)) =>
        \A k \in 0..(PixelCount - 1) :
            LET e == PixelAt(Resize(editedImage, originalImage.width, originalImage.height), k)
            IN  PixelAt(composite, k) = <<e[1], e[2], e[3], OriginalRgba(k)[4]>>

C22_Witness ==
    /\ cpc = "done"
    /\ MaskIs(255)
    /\ PixelCount = 2
    /\ editedImage.channels = 4
    /\ editedImage.width = originalImage.width
    /\ editedImage.height = originalImage.height
    /\ PixelAt(editedImage, 0) # PixelAt(editedImage, 1)
    /\ composite.data = <<60, 70, 80, 128, 250, 240, 230, 255>>

\* C23: whatever the sizes of the edited image and of the mask, the composite
\* has the width and height of the original, four bytes for each of its
\* pixels, and at every pixel the alpha of the original.
C23_SizeAndAlphaOfOriginal ==
    cpc = "done" =>
        /\ composite.width = originalImage.width
        /\ composite.height = originalImage.height
        /\ Len(composite.data) = PixelCount * 4
        /\ \A k \in 0..(PixelCount - 1) : PixelAt(composite, k)[4] = OriginalRgba(k)[4]

C23_Witness ==
    /\ cpc = "done"
    /\ originalImage.width = 1 /\ originalImage.height = 2
    /\ editedImage.width = 2 /\ editedImage.height = 1
    /\ maskImage.width = 1 /\ maskImage.height = 1
    /\ MaskIs(128)
    /\ originalImage.channels = 4 /\ editedImage.channels = 4
    /\ PixelAt(composite, 1)[4] = 128
    /\ PixelAt(editedImage, 1)[4] = 64

----------------------------------------------------------------------------
(* GeminiDirector: parseJSON.                                              *)
(*                                                                         *)
(* SpecParser models one call of parseJSON(text, context).  A text is a    *)
(* string; a backtick cannot be written in a string of this module, so the *)
(* texts write an apostrophe for it and hold no apostrophe of their own.   *)
(* A parsed value is written as its JSON.stringify text.                   *)

\* The three backticks of a code fence.
Fence == "'''"

CharAt(str, p) == SubSeq(str, p, p)

\* The characters of str from position a to position b, as far as str goes.
Slice(str, a, b) == SubSeq(str, a, IF b > Len(str) THEN Len(str) ELSE b)

\* String.prototype.startsWith / endsWith
StartsWith(str, prefix) ==
    Len(str) >= Len(prefix) /\ SubSeq(str, 1, Len(prefix)) = prefix
EndsWith(str, suffix) ==
    Len(str) >= Len(suffix) /\ SubSeq(str, Len(str) - Len(suffix) + 1, Len(str)) = suffix

\* The first position from `from` on at which pattern occurs in str, else 0.
IndexFrom(str, pattern, from) ==
    LET at == {p \in from..(Len(str) - Len(pattern) + 1) :
                  SubSeq(str, p, p + Len(pattern) - 1) = pattern}
    IN  IF at = {} THEN 0 ELSE CHOOSE p \in at : \A q \in at : p <= q

\* The last position at which the character ch occurs in str, else 0.
LastIndexOf(str, ch) ==
    LET at == {p \in 1..Len(str) : CharAt(str, p) = ch}
    IN  IF at = {} THEN 0 ELSE CHOOSE p \in at : \A q \in at : q <= p

NoMatch == [matched |-> FALSE, group |-> ""]
Match(group) == [matched |-> TRUE, group |-> group]

\* cleaned.match(/```(?:json)?\s*\n?([\s\S]*?)\n?\s*```/): the match starts at
\* the first fence, takes "json" when it follows, and its lazy group ends
\* before the white space in front of the next fence.  The white space the
\* pattern leaves in the group is what the trim() of the caller removes.
CodeBlockMatch(str) ==
    LET open == IndexFrom(str, Fence, 1)
        close == IF open = 0 THEN 0 ELSE IndexFrom(str, Fence, open + 3)
        from == IF close # 0 /\ Slice(str, open + 3, open + 6) = "json"
                THEN open + 7 ELSE open + 3
    IN  IF close = 0 THEN NoMatch ELSE Match(SubSeq(str, from, close - 1))

\* cleaned.match(/(\{[\s\S]*\}|\[[\s\S]*\])/): from the first '{' that has a
\* '}' after it to the last '}', or from the first '[' that has a ']' after
\* it to the last ']', whichever starts first.
JsonMatch(str) ==
    LET closer(ch) == IF ch = "{" THEN "}" ELSE "]"
        at == {p \in 1..Len(str) :
                  /\ CharAt(str, p) \in {"{", "["}
                  /\ LastIndexOf(str, closer(CharAt(str, p))) > p}
    IN  IF at = {} THEN NoMatch
        ELSE LET first == CHOOSE p \in at : \A q \in at : p <= q
             IN  Match(SubSeq(str, first, LastIndexOf(str, closer(CharAt(str, first)))))


(* JSON.parse, as a recursive descent over the text.  A result holds ok,   *)
(* the position after the value (or the position of the failure) and the   *)
(* JSON.stringify text of the value.  The texts of this model hold integer *)
(* numbers, no \u escapes and no repeated or numeric keys, so a value's    *)
(* JSON.stringify text is its members in the order of the text.            *)

Failed(p) == [ok |-> FALSE, next |-> p, canon |-> ""]
Parsed(p, canon) == [ok |-> TRUE, next |-> p, canon |-> canon]

Digits == {"0", "1", "2", "3", "4", "5", "6", "7", "8", "9"}
Escapes == {"\"", "\\", "/", "b", "f", "n", "r", "t"}

RECURSIVE SkipWs(_, _)
SkipWs(str, p) ==
    IF p <= Len(str) /\ IsSpace(CharAt(str, p)) THEN SkipWs(str, p + 1) ELSE p

\* The characters of a string literal after its opening quote.
RECURSIVE ScanString(_, _, _)
ScanString(str, p, acc) ==
    IF p > Len(str) THEN Failed(p)
    ELSE LET ch == CharAt(str, p)
         IN  IF ch = "\"" THEN Parsed(p + 1, "\"" \o acc \o "\"")
             ELSE IF ch = "\\"
                  THEN IF p + 1 > Len(str) THEN Failed(p + 1)
                       ELSE IF CharAt(str, p + 1) \notin Escapes THEN Failed(p + 1)
                       ELSE IF CharAt(str, p + 1) = "/" THEN ScanString(str, p + 2, acc \o "/")
                       ELSE ScanString(str, p + 2, acc \o SubSeq(str, p, p + 1))
             ELSE IF ch \in {"\n", "\r", "\t"} THEN Failed(p)
             ELSE ScanString(str, p + 1, acc \o ch)

RECURSIVE ScanDigits(_, _)
ScanDigits(str, p) ==
    IF p <= Len(str) /\ CharAt(str, p) \in Digits THEN ScanDigits(str, p + 1) ELSE p

\* An integer: an optional minus sign, then 0 or digits without a leading 0.
ScanNumber(str, p) ==
    LET q == IF CharAt(str, p) = "-" THEN p + 1 ELSE p
        r == IF q <= Len(str) /\ CharAt(str, q) = "0" THEN q + 1 ELSE ScanDigits(str, q)
    IN  IF r = q THEN Failed(q)
        ELSE IF SubSeq(str, p, r - 1) = "-0" THEN Parsed(r, "0")
        ELSE Parsed(r, SubSeq(str, p, r - 1))

RECURSIVE ParseValue(_, _)
RECURSIVE ParseElements(_, _, _, _)
RECURSIVE ParseMembers(_, _, _, _)

ParseValue(str, p) ==
    LET q == SkipWs(str, p)
        ch == CharAt(str, q)
    IN  IF q > Len(str) THEN Failed(q)
        ELSE IF ch = "{" THEN ParseMembers(str, q + 1, "", TRUE)
        ELSE IF ch = "[" THEN ParseElements(str, q + 1, "", TRUE)
        ELSE IF ch = "\"" THEN ScanString(str, q + 1, "")
        ELSE IF ch = "-" \/ ch \in Digits THEN ScanNumber(str, q)
        ELSE IF Slice(str, q, q + 3) = "true" THEN Parsed(q + 4, "true")
        ELSE IF Slice(str, q, q + 4) = "false" THEN Parsed(q + 5, "false")
        ELSE IF Slice(str, q, q + 3) = "null" THEN Parsed(q + 4, "null")
        ELSE Failed(q)

\* The elements of an array after its '[' (first) or after a ','.
ParseElements(str, p, acc, first) ==
    LET q == SkipWs(str, p)
    IN  IF first /\ q <= Len(str) /\ CharAt(str, q) = "]" THEN Parsed(q + 1, "[]")
        ELSE LET v == ParseValue(str, q)
                 r == SkipWs(str, v.next)
                 all == IF first THEN v.canon ELSE acc \o "," \o v.canon
             IN  IF ~v.ok THEN v
                 ELSE IF r > Len(str) THEN Failed(r)
                 ELSE IF CharAt(str, r) = "," THEN ParseElements(str, r + 1, all, FALSE)
                 ELSE IF CharAt(str, r) = "]" THEN Parsed(r + 1, "[" \o all \o "]")
                 ELSE Failed(r)

\* The members of an object after its '{' (first) or after a ','.
ParseMembers(str, p, acc, first) ==
    LET q == SkipWs(str, p)
    IN  IF q > Len(str) THEN Failed(q)
        ELSE IF first /\ CharAt(str, q) = "}" THEN Parsed(q + 1, "{}")
        ELSE IF CharAt(str, q) # "\"" THEN Failed(q)
        ELSE LET key == ScanString(str, q + 1, "")
                 colon == SkipWs(str, key.next)
                 v == ParseValue(str, colon + 1)
                 r == SkipWs(str, v.next)
                 member == key.canon \o ":" \o v.canon
                 all == IF first THEN member ELSE acc \o "," \o member
             IN  IF ~key.ok THEN key
                 ELSE IF colon > Len(str) \/ CharAt(str, colon) # ":" THEN Failed(colon)
                 ELSE IF ~v.ok THEN v
                 ELSE IF r > Len(str) THEN Failed(r)
                 ELSE IF CharAt(str, r) = "," THEN ParseMembers(str, r + 1, all, FALSE)
                 ELSE IF CharAt(str, r) = "}" THEN Parsed(r + 1, "{" \o all \o "}")
                 ELSE Failed(r)

\* JSON.parse(str): one value with nothing but white space around it.
JsonParse(str) ==
    LET v == ParseValue(str, 1)
        r == SkipWs(str, v.next)
    IN  IF ~v.ok THEN v
        ELSE IF r <= Len(str) THEN Failed(r)
        ELSE v

\* The message of the SyntaxError JSON.parse throws for a failure at p.
SyntaxErrorMessage(str, p) ==
    IF p > Len(str) THEN "Unexpected end of JSON input"
    ELSE "Unexpected token " \o CharAt(str, p) \o " in JSON at position " \o ToString(p - 1)


(* The texts parseJSON is called with.                                      *)

MaxDepth == 1

\* JSON.stringify texts of structures: objects and arrays whose string
\* values hold braces, brackets and code fences.
BaseDocs ==
    { "{\"a\":1}",
      "[1,2]",
      "{}",
      "[]",
      "{\"operations\":[{\"type\":\"remove\",\"priority\":1}]}",
      "[{\"a\":true},null]",
      "{\"a\":\"x{y}z\"}",
      "{\"a\":\"[b]\"}",
      "{\"a\":\"}\"}",
      "{\"a\":\"'''\"}",
      "{\"a\":\"'''b'''\"}",
      "[\"'''json\",\"'''\"]" }

\* The structures nested in an array or in an object, n levels deep.
RECURSIVE Nested(_)
Nested(n) ==
    IF n = 0 THEN BaseDocs
    ELSE LET inner == Nested(n - 1)
         IN  inner \cup {"[" \o d \o "]" : d \in inner}
                   \cup {"{\"plan\":" \o d \o "}" : d \in inner}

Docs == Nested(MaxDepth)

\* A document in a fenced code block with the language tag `tag`.
Fenced(tag, doc) == Fence \o tag \o "\n" \o doc \o "\n" \o Fence
Tags == {"", "json", "javascript"}


\* What a response says before and after its document: plain prose, and
\* prose that holds braces or brackets of its own.
PlainProse == {<<"Here is the plan:\n", "\nLet me know.">>}
BracketProse ==
    { <<"Use {curly} braces:\n", "">>,
      <<"", "\nSee [1] for details.">>,
      <<"Steps [draft]: ", " (end of {plan})">> }
Prose == PlainProse \cup BracketProse

\* Responses from which no structure can be parsed.
Unparsable ==
    { "",
      "I cannot help with that.",
      "{",
      "{\"a\":",
      "[1,2",
      "{a:1}",
      "The plan: {\"operations\":[",
      "'''json\n'''",
      "'''\nnot json\n'''",
      "'''json\n{\"a\":" }

Texts ==
    Docs
    \cup {" \n" \o d \o "\n " : d \in Docs}
    \cup {Fenced(tag, d) : tag \in Tags, d \in Docs}
    \cup {pr[1] \o Fenced(tag, d) \o pr[2] : pr \in PlainProse, tag \in {"", "json"}, d \in Docs}
    \cup {pr[1] \o d \o pr[2] : pr \in Prose, d \in Docs}
    \cup {Fence \o "json\n" \o d : d \in Docs}
    \cup {d \o "\n" \o Fence : d \in Docs}
    \cup Unparsable

\* The context labels of the three callers.
Contexts == {"scene analysis", "edit plan", "verification"}

(* parseJSON, step by step.                                                 *)

\* The text after the code-block match or, without one, after the removal
\* of a leading and of a trailing fence.
StripFence(text) ==
    LET trimmed == Trim(text)
        codeBlockMatch == CodeBlockMatch(trimmed)
        headless == IF StartsWith(trimmed, Fence \o "json")
                    THEN SubSeq(trimmed, 8, Len(trimmed))
                    ELSE IF StartsWith(trimmed, Fence)
                    THEN SubSeq(trimmed, 4, Len(trimmed))
                    ELSE trimmed
        tailless == IF EndsWith(headless, Fence)
                    THEN SubSeq(headless, 1, Len(headless) - 3)
                    ELSE headless
    IN  IF codeBlockMatch.matched THEN Trim(codeBlockMatch.group) ELSE Trim(tailless)

\* The text JSON.parse is given: the match of the extraction pattern when
\* the text does not start with '{' or '[' and the pattern matches.
Extract(str) ==
    IF ~StartsWith(str, "{") /\ ~StartsWith(str, "[") /\ JsonMatch(str).matched
    THEN JsonMatch(str).group
    ELSE str

\* cleaned.slice(-100)
TailLength == 100
TailSnippet(str) ==
    SubSeq(str, IF Len(str) > TailLength THEN Len(str) - TailLength + 1 ELSE 1, Len(str))

\* The two lines the catch block writes with console.error.
ErrorLines(context, message, str) ==
    << "JSON parse error for " \o context \o ": " \o message,
       "Response length: " \o ToString(Len(str)) \o ", last 100 chars: ..."
           \o TailSnippet(str) >>

\* The message of the Error the catch block throws.
FailureMessage(context, message, str) ==
    "Failed to parse " \o context \o " from Gemini response. "
        \o "Parse error: " \o message \o ". "
        \o "Response length: " \o ToString(Len(str))

ParseReturned(value) == [kind |-> "returned", value |-> value, error |-> ""]
ParseThrown(message) == [kind |-> "thrown", value |-> "", error |-> message]

\* Faulty variant: a text that cannot be parsed gives the empty object.
ParseOutcomeDefaulting(str, context) ==
    IF JsonParse(str).ok THEN ParseReturned(JsonParse(str).canon) ELSE ParseReturned("{}")
\* `return JSON.parse(cleaned)`, or the throw of the catch block.
ParseOutcome(str, context) ==
    LET r == JsonParse(str)
    IN  IF r.ok THEN ParseReturned(r.canon)
        ELSE ParseThrown(FailureMessage(context, SyntaxErrorMessage(str, r.next), str))

InitParser ==
    /\ EditIdle
    /\ RetryIdle
    /\ ResolverIdle
    /\ CompositeIdle
    /\ PollIdle
    /\ ImageRefIdle
    /\ EditImageIdle
    /\ UploadIdle
    /\ EditRouteIdle
    /\ responseText \in Texts
    /\ contextLabel \in Contexts
    /\ jpc = "start"
    /\ cleaned = ""
    /\ logged = <<>>
    /\ parsed = NoOutcome

\* Lines 477-494: trim, then the code-block match or the fence removal.
Strip ==
    /\ jpc = "start"
    /\ cleaned' = StripFence(responseText)
    /\ jpc' = "stripped"
    /\ UNCHANGED <<responseText, contextLabel, logged, parsed>>
    /\ UNCHANGED otherThanParser

\* Lines 496-502: the extraction of a JSON object or array.
ExtractJson ==
    /\ jpc = "stripped"
    /\ cleaned' = Extract(cleaned)
    /\ jpc' = "cleaned"
    /\ UNCHANGED <<responseText, contextLabel, logged, parsed>>
    /\ UNCHANGED otherThanParser

\* Lines 504-514: JSON.parse returns the value.
ParseReturns ==
    /\ jpc = "cleaned"
    /\ JsonParse(cleaned).ok
    /\ parsed' = ParseOutcome(cleaned, contextLabel)
    /\ jpc' = "done"
    /\ UNCHANGED <<responseText, contextLabel, cleaned, logged>>
    /\ UNCHANGED otherThanParser

\* Lines 504-514: JSON.parse throws; the catch block logs and throws.
ParseThrows ==
    /\ jpc = "cleaned"
    /\ ~JsonParse(cleaned).ok
    /\ logged' = logged \o ErrorLines(contextLabel,
                     SyntaxErrorMessage(cleaned, JsonParse(cleaned).next), cleaned)
    /\ parsed' = ParseOutcome(cleaned, contextLabel)
    /\ jpc' = "done"
    /\ UNCHANGED <<responseText, contextLabel, cleaned>>
    /\ UNCHANGED otherThanParser

NextParser ==
    \/ Strip
    \/ ExtractJson
    \/ ParseReturns
    \/ ParseThrows

SpecParser == InitParser /\ [][NextParser]_vars


(* Claims about parseJSON.                                                  *)

\* The value of a document: what JSON.parse makes of it.
ValueOf(doc) == ParseReturned(JsonParse(doc).canon)

\* The documents that hold a pair of code fences in their string values.
HoldsFencePair(doc) ==
    IndexFrom(doc, Fence, 1) # 0
    /\ IndexFrom(doc, Fence, IndexFrom(doc, Fence, 1) + 3) # 0

\* C24: parser round trip: for every structure x, strings with braces,
\* brackets and triple backticks included, parseJSON(JSON.stringify(x))
\* returns a value equal to x.
C24_RoundTrip ==
    \A d \in Docs :
        (responseText = d /\ jpc = "done") => parsed = ValueOf(d)

\* C25: fence tolerance: a valid JSON document in a fenced code block, with
\* or without a language tag and with or without plain prose around the
\* fence, parses to the value of the document.
C25_FenceTolerance ==
    \A d \in Docs : \A tag \in Tags : \A pr \in PlainProse \cup {<<"", "">>} :
        (responseText = pr[1] \o Fenced(tag, d) \o pr[2] /\ jpc = "done")
            => parsed = ValueOf(d)

\* C26: a response that is prose, a valid JSON document and prose again, the
\* prose holding braces or brackets or none, parses to the value of the
\* document.
C26_FirstBalancedSubstring ==
    \A d \in Docs : \A pr \in Prose :
        (pr[1] # "" /\ responseText = pr[1] \o d \o pr[2] /\ jpc = "done")
            => parsed = ValueOf(d)


\* No structure can be parsed: JSON.parse rejects the cleaned text.
NothingParsed == jpc = "done" /\ ~JsonParse(cleaned).ok

\* The original statement of C27: the raised error carries the context
\* label, the length of the cleaned text and its tail snippet.
C27_ErrorCarriesTailSnippet ==
    NothingParsed =>
        /\ parsed.kind = "thrown"
        /\ Includes(parsed.error, contextLabel)
        /\ Includes(parsed.error, ToString(Len(cleaned)))
        /\ Includes(parsed.error, TailSnippet(cleaned))

\* C27: when no structure can be parsed, parseJSON always raises and never
\* returns a default or empty structure; the raised error names the context
\* label and the length of the cleaned text, and the tail snippet of the
\* cleaned text is written to the error log, not into the raised error.
C27_FailureRaisesAndLogsTail ==
    /\ NothingParsed =>
        /\ parsed.kind = "thrown"
        /\ StartsWith(parsed.error, "Failed to parse " \o contextLabel \o " ")
        /\ EndsWith(parsed.error, "Response length: " \o ToString(Len(cleaned)))
        /\ Len(logged) = 2
        /\ EndsWith(logged[2], "..." \o TailSnippet(cleaned))
    /\ (jpc = "done" /\ parsed.kind = "returned") =>
        /\ JsonParse(cleaned).ok
        /\ parsed.value = JsonParse(cleaned).canon

C27_Witness ==
    /\ NothingParsed
    /\ responseText \in Unparsable
    /\ cleaned # ""
    /\ parsed.kind = "thrown"
    /\ ~Includes(parsed.error, TailSnippet(cleaned))


----------------------------------------------------------------------------
(* ReplicateClient: run = createPrediction, then waitForPrediction.        *)
(*                                                                         *)
(* SpecPoll models one call of run(modelId, input).  The service answers   *)
(* each request with any of the responses below; time is the milliseconds  *)
(* since waitForPrediction read startTime, and it advances while a poll is *)
(* awaited and while the loop sleeps.                                      *)

MaxLatency == 1

RateLimitRetries == 5
BackoffBaseSec == 5
MaxWaitMs == 300000
PollIntervalMs == 1000

\* The retry_after a rate-limited answer carries, in seconds; Undefined is
\* a body without the field or a body that is not JSON.
RetryAfters == {Undefined, 0, 3}

\* What the service answers a submission with.
SubmitResponses ==
    {[status |-> 429, text |-> "rate limited", retry_after |-> ra] : ra \in RetryAfters}
    \cup { [status |-> 201, text |-> "", retry_after |-> Undefined],
           [status |-> 401, text |-> "unauthenticated", retry_after |-> Undefined],
           [status |-> 500, text |-> "internal error", retry_after |-> Undefined] }

\* response.ok
Ok(status) == status \in 200..299

\* Faulty variant: one retry fewer.
MayRetryFourTimes(status, n) == status = 429 /\ n < RateLimitRetries - 1
\* `response.status === 429 && retryCount < 5`
MayRetry(status, n) == status = 429 /\ n < RateLimitRetries

\* `errorBody.retry_after || Math.pow(2, retryCount) * 5`
RetryAfterSec(suggested, n) ==
    IF suggested # Undefined /\ suggested # 0 THEN suggested ELSE (2 ^ n) * BackoffBaseSec

\* The message of the Error createPrediction throws for a response not ok.
ApiError(response) ==
    "Replicate API error: " \o ToString(response.status) \o " - " \o response.text

\* What a poll of the prediction can answer: a status with the output and
\* the error of the job; "undefined" is an error field that is not there.
Statuses == {"starting", "processing", "succeeded", "failed", "canceled"}
Predictions ==
    { [status |-> "starting", output |-> "null", error |-> "undefined"],
      [status |-> "processing", output |-> "null", error |-> "undefined"],
      [status |-> "succeeded", output |-> "https://replicate.delivery/out.png",
       error |-> "undefined"],
      [status |-> "failed", output |-> "null", error |-> "CUDA out of memory"],
      [status |-> "failed", output |-> "null", error |-> "undefined"],
      [status |-> "canceled", output |-> "null", error |-> "undefined"] }

\* The statuses of the responses getPrediction rejects.
PollFailureStatuses == {404, 502}

\* The time the answer to a poll takes, in ms.
Latencies == {k * PollIntervalMs : k \in 0..MaxLatency}

RunReturned(value) == [kind |-> "returned", value |-> value, error |-> ""]
RunThrown(message) == [kind |-> "thrown", value |-> "", error |-> message]

\* Faulty variant: a canceled prediction is polled again.
StatusOutcomeIgnoresCanceled(prediction) ==
    IF prediction.status = "succeeded" THEN RunReturned(prediction.output)
    ELSE IF prediction.status = "failed"
    THEN RunThrown("Prediction failed: " \o prediction.error)
    ELSE NoOutcome
\* The three tests of the loop body: what ends the wait, or NoOutcome when
\* the loop goes on.
StatusOutcome(prediction) ==
    IF prediction.status = "succeeded" THEN RunReturned(prediction.output)
    ELSE IF prediction.status = "failed"
    THEN RunThrown("Prediction failed: " \o prediction.error)
    ELSE IF prediction.status = "canceled" THEN RunThrown("Prediction was canceled")
    ELSE NoOutcome

\* Faulty variant: the loop allows twice the wait.
ExpiredLate(ms) == ms >= 2 * MaxWaitMs
\* The negation of the loop condition `Date.now() - startTime < maxWaitMs`.
Expired(ms) == ms >= MaxWaitMs

InitPoll ==
    /\ EditIdle
    /\ RetryIdle
    /\ ResolverIdle
    /\ CompositeIdle
    /\ ParserIdle
    /\ ImageRefIdle
    /\ EditImageIdle
    /\ UploadIdle
    /\ EditRouteIdle
    /\ wpc = "submit"
    /\ retryCount = 0
    /\ submissions = 0
    /\ lastBackoff = 0
    /\ lastSuggested = Undefined
    /\ elapsed = 0
    /\ polled = ""
    /\ pollFailed = FALSE
    /\ runOutcome = NoOutcome

\* createPrediction: the POST is answered 429 and a retry is left.
SubmitRateLimited ==
    /\ wpc = "submit"
    /\ \E response \in SubmitResponses :
        /\ MayRetry(response.status, retryCount)
        /\ lastBackoff' = RetryAfterSec(response.retry_after, retryCount)
        /\ lastSuggested' = response.retry_after
    /\ submissions' = submissions + 1
    /\ wpc' = "backoff"
    /\ UNCHANGED <<retryCount, elapsed, polled, pollFailed, runOutcome>>
    /\ UNCHANGED otherThanPoll

\* createPrediction: the response is not ok; the error goes through run.
SubmitRejected ==
    /\ wpc = "submit"
    /\ \E response \in SubmitResponses :
        /\ ~MayRetry(response.status, retryCount)
        /\ ~Ok(response.status)
        /\ runOutcome' = RunThrown(ApiError(response))
    /\ submissions' = submissions + 1
    /\ wpc' = "done"
    /\ UNCHANGED <<retryCount, lastBackoff, lastSuggested, elapsed, polled, pollFailed>>
    /\ UNCHANGED otherThanPoll

\* createPrediction returns the prediction; waitForPrediction reads
\* startTime.
SubmitCreated ==
    /\ wpc = "submit"
    /\ \E response \in SubmitResponses :
        /\ ~MayRetry(response.status, retryCount)
        /\ Ok(response.status)
    /\ submissions' = submissions + 1
    /\ elapsed' = 0
    /\ wpc' = "head"
    /\ UNCHANGED <<retryCount, lastBackoff, lastSuggested, polled, pollFailed, runOutcome>>
    /\ UNCHANGED otherThanPoll

\* The rate-limit wait is over: createPrediction calls itself with
\* retryCount + 1.
BackoffEnds ==
    /\ wpc = "backoff"
    /\ retryCount' = retryCount + 1
    /\ wpc' = "submit"
    /\ UNCHANGED <<submissions, lastBackoff, lastSuggested, elapsed, polled, pollFailed, runOutcome>>
    /\ UNCHANGED otherThanPoll

\* The loop condition holds: getPrediction sends its request.
PollStarts ==
    /\ wpc = "head"
    /\ ~Expired(elapsed)
    /\ wpc' = "poll"
    /\ UNCHANGED <<retryCount, submissions, lastBackoff, lastSuggested, elapsed, polled, pollFailed,
                   runOutcome>>
    /\ UNCHANGED otherThanPoll

\* The loop condition fails: `throw new Error('Prediction timeout')`.
TimesOut ==
    /\ wpc = "head"
    /\ Expired(elapsed)
    /\ runOutcome' = RunThrown("Prediction timeout")
    /\ wpc' = "done"
    /\ UNCHANGED <<retryCount, submissions, lastBackoff, lastSuggested, elapsed, polled, pollFailed>>
    /\ UNCHANGED otherThanPoll

\* getPrediction returns the prediction; the loop body tests its status.
PollReturns ==
    /\ wpc = "poll"
    /\ \E prediction \in Predictions, latency \in Latencies :
        /\ elapsed' = elapsed + latency
        /\ polled' = prediction.status
        /\ runOutcome' = StatusOutcome(prediction)
        /\ wpc' = IF StatusOutcome(prediction) = NoOutcome THEN "sleep" ELSE "done"
    /\ UNCHANGED <<retryCount, submissions, lastBackoff, lastSuggested, pollFailed>>
    /\ UNCHANGED otherThanPoll

\* getPrediction throws for a response not ok; the error goes through
\* waitForPrediction and run.
PollFails ==
    /\ wpc = "poll"
    /\ \E status \in PollFailureStatuses, latency \in Latencies :
        /\ elapsed' = elapsed + latency
        /\ runOutcome' = RunThrown("Failed to get prediction: " \o ToString(status))
    /\ pollFailed' = TRUE
    /\ wpc' = "done"
    /\ UNCHANGED <<retryCount, submissions, lastBackoff, lastSuggested, polled>>
    /\ UNCHANGED otherThanPoll

\* `setTimeout(resolve, 1000)` fires; back to the loop condition.
PollSleepEnds ==
    /\ wpc = "sleep"
    /\ elapsed' = elapsed + PollIntervalMs
    /\ wpc' = "head"
    /\ UNCHANGED <<retryCount, submissions, lastBackoff, lastSuggested, polled, pollFailed, runOutcome>>
    /\ UNCHANGED otherThanPoll

NextPoll ==
    \/ SubmitRateLimited
    \/ SubmitRejected
    \/ SubmitCreated
    \/ BackoffEnds
    \/ PollStarts
    \/ TimesOut
    \/ PollReturns
    \/ PollFails
    \/ PollSleepEnds

SpecPoll == InitPoll /\ [][NextPoll]_vars

\* Every request is answered or fails and every timer fires, so a step that
\* is possible is taken.
SpecPollFair == SpecPoll /\ WF_vars(NextPoll)


(* Claims about run, createPrediction and waitForPrediction.                *)

Terminal == {"succeeded", "failed", "canceled"}

\* waitForPrediction was entered and has ended.
WaitEnded == wpc = "done" /\ (polled # "" \/ pollFailed)

\* What the end of a wait looks like for each terminal status.
EndsBySucceeded ==
    \E p \in Predictions :
        p.status = "succeeded" /\ polled = "succeeded" /\ runOutcome = RunReturned(p.output)
EndsByFailed ==
    \E p \in Predictions :
        /\ p.status = "failed" /\ polled = "failed"
        /\ runOutcome = RunThrown("Prediction failed: " \o p.error)
EndsByCanceled == polled = "canceled" /\ runOutcome = RunThrown("Prediction was canceled")
EndsByTimeout ==
    /\ polled \in Statuses \ Terminal
    /\ Expired(elapsed)
    /\ runOutcome = RunThrown("Prediction timeout")
EndsByFailedPoll ==
    /\ pollFailed
    /\ polled \notin Terminal
    /\ \E status \in PollFailureStatuses :
           runOutcome = RunThrown("Failed to get prediction: " \o ToString(status))

\* The loop goes on after a status that is not terminal: it sleeps the
\* fixed interval and comes back to the loop condition.
KeepsPolling ==
    /\ [][(wpc = "poll" /\ ~pollFailed' /\ polled' \notin Terminal)
              => (wpc' = "sleep" /\ runOutcome' = NoOutcome)]_vars
    /\ [][wpc = "sleep" => (wpc' = "head" /\ elapsed' = elapsed + PollIntervalMs)]_vars

\* What each terminal status gives, whenever it was polled.
StatusDecides ==
    /\ runOutcome.kind = "returned" <=> polled = "succeeded"
    /\ polled = "succeeded" => EndsBySucceeded
    /\ polled = "failed" => EndsByFailed
    /\ polled = "canceled" => EndsByCanceled

\* The original statement of C28: the wait ends only on a terminal status
\* or on the timeout.
C28_EndsOnlyOnTerminalOrTimeout ==
    /\ StatusDecides
    /\ WaitEnded => (EndsBySucceeded \/ EndsByFailed \/ EndsByCanceled \/ EndsByTimeout)

\* C28: waitForPrediction ends on a terminal status, on the timeout, or when
\* a poll request itself fails: it returns the output exactly when a poll
\* reports succeeded, raises the job's error message on failed, a distinct
\* error on canceled, the error of the failed request when a poll is not
\* answered ok, and keeps polling at the fixed interval otherwise.
C28_EndsOnTerminalTimeoutOrFailedPoll ==
    /\ [](StatusDecides
          /\ (WaitEnded => (EndsBySucceeded \/ EndsByFailed \/ EndsByCanceled
                               \/ EndsByTimeout \/ EndsByFailedPoll)))
    /\ KeepsPolling

C28_Witness ==
    /\ WaitEnded
    /\ EndsByCanceled
    /\ elapsed >= 2 * PollIntervalMs

\* The longest a wait can take: the loop is entered before MaxWaitMs, and
\* then come the answer to the poll and one sleep.
LongestWaitMs == MaxWaitMs + (MaxLatency + 1) * PollIntervalMs

AllRateLimited ==
    wpc = "done" /\ StartsWith(runOutcome.error, "Replicate API error: 429")

\* The original statement of C30: at most 5 submissions in total.
C30_AtMostFiveSubmissions ==
    /\ submissions <= RateLimitRetries
    /\ AllRateLimited => runOutcome.kind = "thrown"

\* C30: when every submission is rate-limited, createPrediction makes the
\* first submission and 5 retries, 6 submissions in total, and then raises
\* the API error instead of resubmitting; the wait before retry n+1 is the
\* suggested one or 5 * 2^n seconds.
C30_AtMostSixSubmissions ==
    /\ submissions <= RateLimitRetries + 1
    /\ AllRateLimited =>
        /\ submissions = RateLimitRetries + 1
        /\ retryCount = RateLimitRetries
        /\ runOutcome = RunThrown("Replicate API error: 429 - rate limited")
    /\ wpc = "backoff" =>
        /\ submissions = retryCount + 1
        /\ lastBackoff \in (RetryAfters \ {Undefined, 0}) \cup {(2 ^ retryCount) * BackoffBaseSec}

C30_Witness ==
    /\ AllRateLimited
    /\ submissions = 6
    /\ lastBackoff = 80


\* C31: before the n-th resubmission (n = retryCount + 1) createPrediction
\* waits the retry delay the rejection carries whenever it carries one, and
\* otherwise 5 * 2^(n-1) seconds.
C31_WaitsSuggestedOrDefault ==
    wpc = "backoff" =>
        lastBackoff = IF lastSuggested # Undefined THEN lastSuggested
                      ELSE (2 ^ retryCount) * BackoffBaseSec


----------------------------------------------------------------------------
(* Image references: ReplicateClient.resolveImageSource and the two         *)
(* prepareImageData of GeminiEditor and GeminiDirector.                     *)
(*                                                                          *)
(* SpecImageRef models one call of one of the three functions on a source   *)
(* string.  A source is kept with the form its caller means by it.          *)

ImageFns == {"resolveImageSource", "GeminiEditor.prepareImageData",
             "GeminiDirector.prepareImageData"}

\* Sources of the four forms; the raw base64 payloads are the first bytes of
\* a PNG, a JPEG, a GIF and of other data.
ImageReferences ==
    {[form |-> "url", text |-> t] :
        t \in {"http://host/a.png", "https://host/b.jpg"}}
    \cup {[form |-> "data", text |-> t] :
        t \in {"data:image/png;base64,iVBORw0KGgo=", "data:image/jpeg;base64,/9j/4AAQ",
               "data:image/png,iVBORw0KGgo=", "data:;base64,AAAA"}}
    \cup {[form |-> "path", text |-> t] :
        t \in {"/tmp/a.png", "./b.jpg", "../img/c.webp", "~/d.gif", "/tmp/missing.png",
               "/tmp/noext"}}
    \cup {[form |-> "base64", text |-> t] :
        t \in {"iVBORw0KGgo=", "/9j/4AAQSkZJRg==", "R0lGODlh", "AAAA", "+vv/AA==",
               "/+7/AA=="}}

\* process.env.HOME, and the files that exist, with their bytes in base64.
Home == "/home/user"
Files == {"/tmp/a.png", "./b.jpg", "../img/c.webp", "/home/user/d.gif", "/tmp/noext"}
FileBase64(path) == "RklMRTo=" \o ToString(Len(path))

\* The bytes a fetch of the URL answers with, in base64.
FetchedBase64(url) == "VVJMOg==" \o ToString(Len(url))

\* source.match(/^data:[^;]+;base64,(.+)$/)
DataUrlMatch(str) ==
    LET semi == IndexFrom(str, ";", 6)
    IN  IF StartsWith(str, "data:") /\ semi > 6
           /\ Slice(str, semi, semi + 7) = ";base64," /\ Len(str) > semi + 7
        THEN Match(SubSeq(str, semi + 8, Len(str)))
        ELSE NoMatch

\* filePath.replace('~', process.env.HOME || '') for a path that starts
\* with '~'.
ExpandHome(path) ==
    IF StartsWith(path, "~") THEN Home \o SubSeq(path, 2, Len(path)) ELSE path

\* path.extname(filePath).toLowerCase(), for the lower-case names of the
\* model: from the last '.' of the last segment, "" when that segment has
\* none or only starts with one.
ExtName(path) ==
    LET slash == LastIndexOf(path, "/")
        dot == LastIndexOf(path, ".")
    IN  IF dot > slash + 1 THEN SubSeq(path, dot, Len(path)) ELSE ""

\* mimeTypes[ext] || 'image/png'
MimeType(ext) ==
    IF ext \in {".jpg", ".jpeg"} THEN "image/jpeg"
    ELSE IF ext = ".gif" THEN "image/gif"
    ELSE IF ext = ".webp" THEN "image/webp"
    ELSE "image/png"

\* The form resolveImageSource takes a source for, in the order of its
\* tests.
ReplicateForm(str) ==
    IF IsHttp(str) THEN "url"
    ELSE IF StartsWith(str, "data:") THEN "data"
    ELSE IF StartsWith(str, "/") \/ StartsWith(str, ".") \/ StartsWith(str, "~") THEN "path"
    ELSE "base64"

\* The form the two prepareImageData take a source string for, in the order
\* of their tests.
GeminiForm(str) ==
    IF StartsWith(str, "data:") THEN "data"
    ELSE IF IsHttp(str) THEN "url"
    ELSE IF StartsWith(str, "/") \/ StartsWith(str, ".") THEN "path"
    ELSE "base64"

FormOf(fn, str) ==
    IF fn = "resolveImageSource" THEN ReplicateForm(str) ELSE GeminiForm(str)

ImageReturned(value) == [kind |-> "returned", value |-> value, error |-> ""]
ImageThrown(message) == [kind |-> "thrown", value |-> "", error |-> message]

InitImageRef ==
    /\ EditIdle
    /\ RetryIdle
    /\ ResolverIdle
    /\ CompositeIdle
    /\ ParserIdle
    /\ PollIdle
    /\ EditImageIdle
    /\ UploadIdle
    /\ EditRouteIdle
    /\ ipc = "called"
    /\ imgFn \in ImageFns
    /\ imgSource \in ImageReferences
    /\ handledAs = ""
    /\ imgOutcome = NoOutcome

\* The tests of the function up to its first await or its return.
ImageRefCall ==
    /\ ipc = "called"
    /\ handledAs' = FormOf(imgFn, imgSource.text)
    /\ LET how == FormOf(imgFn, imgSource.text)
           m == DataUrlMatch(imgSource.text)
       IN  IF how = "path" THEN ipc' = "reading" /\ UNCHANGED imgOutcome
           ELSE IF how = "url" /\ imgFn # "resolveImageSource"
           THEN ipc' = "fetching" /\ UNCHANGED imgOutcome
           ELSE /\ ipc' = "done"
                /\ imgOutcome' =
                       IF how = "data" /\ imgFn # "resolveImageSource"
                       THEN IF m.matched THEN ImageReturned(m.group)
                            ELSE ImageThrown("Invalid data URL format")
                       ELSE ImageReturned(imgSource.text)
    /\ UNCHANGED <<imgFn, imgSource>>
    /\ UNCHANGED otherThanImageRef

\* The path the function reads.
ReadPath == IF imgFn = "resolveImageSource" THEN ExpandHome(imgSource.text)
            ELSE imgSource.text

\* fs.readFile gives the bytes: a data URL from resolveImageSource, the
\* base64 of the bytes from prepareImageData.
FileRead ==
    /\ ipc = "reading"
    /\ ReadPath \in Files
    /\ imgOutcome' =
           IF imgFn = "resolveImageSource"
           THEN ImageReturned("data:" \o MimeType(ExtName(ReadPath)) \o ";base64,"
                                  \o FileBase64(ReadPath))
           ELSE ImageReturned(FileBase64(ReadPath))
    /\ ipc' = "done"
    /\ UNCHANGED <<imgFn, imgSource, handledAs>>
    /\ UNCHANGED otherThanImageRef

\* fs.readFile rejects: there is no such file.
FileMissing ==
    /\ ipc = "reading"
    /\ ReadPath \notin Files
    /\ imgOutcome' = ImageThrown("ENOENT: no such file or directory, open '"
                                     \o ReadPath \o "'")
    /\ ipc' = "done"
    /\ UNCHANGED <<imgFn, imgSource, handledAs>>
    /\ UNCHANGED otherThanImageRef

\* prepareImageData: the fetch is answered; the body is returned in base64.
ImageFetched ==
    /\ ipc = "fetching"
    /\ imgOutcome' = ImageReturned(FetchedBase64(imgSource.text))
    /\ ipc' = "done"
    /\ UNCHANGED <<imgFn, imgSource, handledAs>>
    /\ UNCHANGED otherThanImageRef

\* prepareImageData: the fetch rejects.
ImageFetchFails ==
    /\ ipc = "fetching"
    /\ imgOutcome' = ImageThrown("fetch failed")
    /\ ipc' = "done"
    /\ UNCHANGED <<imgFn, imgSource, handledAs>>
    /\ UNCHANGED otherThanImageRef

NextImageRef ==
    \/ ImageRefCall
    \/ FileRead
    \/ FileMissing
    \/ ImageFetched
    \/ ImageFetchFails

SpecImageRef == InitImageRef /\ [][NextImageRef]_vars

\* C32: each of the three functions takes a source for the form it has: an
\* http(s) URL, a data URI and a local file path as such, and a raw base64
\* string, whatever its first character, as a base64 payload and never as a
\* file path or a URL.
C32_EachFormAsItself ==
    ipc # "called" => handledAs = imgSource.form


\* The 5xx statuses among the answers of the model.
ServerErrors == {500, 502}

\* The errors run surfaces for a 5xx answer to a submission or to a poll.
SurfacesServerError(outcome) ==
    \E status \in ServerErrors :
        \/ StartsWith(outcome.error, "Replicate API error: " \o ToString(status))
        \/ outcome.error = "Failed to get prediction: " \o ToString(status)

\* C33: a 5xx answer to a submission or to a poll is retried, and its error
\* is surfaced only when the retries are exhausted: the step that surfaces
\* it comes after the last retry of the submission, or after an earlier
\* failed poll that was retried.
C33_TransientRetriedBeforeSurfaced ==
    /\ [][(wpc = "submit" /\ SurfacesServerError(runOutcome'))
              => retryCount = RateLimitRetries]_vars
    /\ [][(wpc = "poll" /\ SurfacesServerError(runOutcome')) => pollFailed]_vars


----------------------------------------------------------------------------
(* Further claims about edit().                                             *)

\* C34: a resize or move operation whose target the segmentation resolver
\* reports as found goes on to the remove-and-reinsert transform and does
\* not fail with 'could not find'.
C34_FoundTargetIsTransformed ==
    (seg.at >= 1 /\ seg.found /\ Operations[seg.at].type \in {"resize", "move"}) =>
        /\ ~(seg.at \in failed /\ result.error = CouldNotFind)
        /\ \E c \in DOMAIN calls : calls[c] = Call("LAMA", seg.at, currentImageUrl)


\* The calls made for an operation of the plan: segmentation and transforms.
OperationCalls == {n \in DOMAIN calls : calls[n].i >= 1}

\* The first call of a capability, 0 when it was not called.
FirstCall(cap) ==
    IF CountCap(cap) = 0 THEN 0
    ELSE CHOOSE n \in DOMAIN calls :
             calls[n].cap = cap /\ \A m \in DOMAIN calls : calls[m].cap = cap => n <= m

\* A call of the director has failed.
DirectorFailed ==
    /\ pc = "done"
    /\ CountCap("analyzeScene") = 1
    /\ ~editPlan.returned

\* C35: in the planned strategy analyzeScene is called exactly once and has
\* returned before planEdit is called, planEdit is called exactly once, no
\* segmentation or transform call is made before planEdit has returned, and
\* a failure of either call leaves edit() without any operation executed.
C35_AnalyzeThenPlanThenDispatch ==
    /\ CountCap("analyzeScene") <= 1
    /\ CountCap("planEdit") <= 1
    /\ pc \in {"analyzeScene", "planEdit"} =>
           (CountCap("analyzeScene") = 1 /\ ~editPlan.returned)
    /\ pc = "analyzeScene" => CountCap("planEdit") = 0
    /\ CountCap("planEdit") = 1 =>
           (FirstCall("planEdit") = FirstCall("analyzeScene") + 1 /\ pc # "analyzeScene")
    /\ editPlan.returned => (CountCap("analyzeScene") = 1 /\ CountCap("planEdit") = 1)
    /\ (invoked # <<>> \/ OperationCalls # {}) =>
           /\ editPlan.returned
           /\ \A n \in OperationCalls : n > FirstCall("planEdit")
    /\ DirectorFailed =>
           /\ result = Thrown(DirectorMsg)
           /\ invoked = <<>>
           /\ OperationCalls = {}
           /\ currentImageUrl = NoImg

C35_Witness ==
    /\ DirectorFailed
    /\ CountCap("planEdit") = 1
    /\ result.kind = "thrown"


----------------------------------------------------------------------------
(* Further claims about withRetry. *)

\* C39: withRetry invokes the operation at least once whatever maxRetries
\* the editor was configured with, 0 included, and an error withRetry throws
\* is one the operation raised.
C39_InvokedAtLeastOnce ==
    (UsesWithRetry(method) /\ rpc = "done") =>
        /\ invocations >= 1
        /\ retryOutcome.kind = "thrown" =>
               (raised # <<>> /\ retryOutcome.error = raised[Len(raised)])


----------------------------------------------------------------------------
(* GeminiEditor.editImage: prepareImageData, the generateContent call under *)
(* withRetry, the search of the response for an image part, and the catch   *)
(* around all of it.  The withRetry part is the one of SpecRetry.           *)

\* Most parts in a response of the model.
MaxParts == 2

\* What a part of a response can be: text, an image with data, an image
\* part whose data is empty, or something else (a thought, a function call).
PartKinds == {"text", "image", "emptyImage", "other"}

PartLists == UNION {[1..n -> PartKinds] : n \in 0..MaxParts}

\* The errors prepareImageData throws.
PrepareErrors ==
    {"Invalid data URL format",
     "fetch failed",
     "ENOENT: no such file or directory, open '/tmp/missing.png'"}

TextInsteadMsg == "Model returned text instead of image. May need different model or prompt."
NoImageMsg == "No image in response"

EditSucceeded(base64) ==
    [kind |-> "returned", success |-> TRUE, error |-> "", outputBase64 |-> base64]
EditFailed(message) ==
    [kind |-> "returned", success |-> FALSE, error |-> message, outputBase64 |-> ""]
EditThrown(message) ==
    [kind |-> "thrown", success |-> FALSE, error |-> message, outputBase64 |-> ""]

\* `if (part.inlineData?.data)`: the part carries image data.
HasImageData(part) == part = "image"

\* The loop over the parts and what follows it: the first part with image
\* data is the result, else the text failure, else the no-image failure.
InspectParts(response, ps) ==
    IF \E k \in DOMAIN ps : HasImageData(ps[k])
    THEN EditSucceeded("image of " \o response)
    ELSE IF \E k \in DOMAIN ps : ps[k] = "text"
         THEN EditFailed(TextInsteadMsg)
         ELSE EditFailed(NoImageMsg)

\* Faulty variant: the catch block lets the error through.
EditImageCaughtRethrows(message) == EditThrown(message)
\* `catch (error) { return { success: false, error: error.message } }`
EditImageCaught(message) == EditFailed(message)

InitEditImage ==
    /\ EditIdle
    /\ ResolverIdle
    /\ CompositeIdle
    /\ ParserIdle
    /\ PollIdle
    /\ ImageRefIdle
    /\ UploadIdle
    /\ EditRouteIdle
    /\ method = "editImage"
    /\ maxRetries \in ConfiguredRetries
    /\ attempt = 0
    /\ rpc = "idle"
    /\ invocations = 0
    /\ raised = <<>>
    /\ sleeps = <<>>
    /\ lastError = ""
    /\ retryOutcome = NoOutcome
    /\ epc = "prepare"
    /\ parts = <<>>
    /\ editResult = NoEditResult

\* prepareImageData returned the base64 data: editImage goes on to withRetry.
PrepareReturns ==
    /\ epc = "prepare"
    /\ epc' = "generate"
    /\ rpc' = "start"
    /\ UNCHANGED <<parts, editResult>>
    /\ UNCHANGED <<method, maxRetries, attempt, invocations, raised, sleeps,
                   lastError, retryOutcome>>
    /\ UNCHANGED otherThanEditImage

\* prepareImageData threw: the catch of editImage.
PrepareThrows ==
    /\ epc = "prepare"
    /\ \E message \in PrepareErrors : editResult' = EditImageCaught(message)
    /\ epc' = "done"
    /\ UNCHANGED parts
    /\ UNCHANGED retryVars
    /\ UNCHANGED otherThanEditImage

\* withRetry returned the response: editImage looks for an image part.
WithRetryReturns ==
    /\ epc = "generate"
    /\ rpc = "done"
    /\ retryOutcome.kind = "returned"
    /\ \E ps \in PartLists :
         /\ parts' = ps
         /\ editResult' = InspectParts(retryOutcome.value, ps)
    /\ epc' = "done"
    /\ UNCHANGED retryVars
    /\ UNCHANGED otherThanEditImage

\* withRetry threw: the catch of editImage.
WithRetryThrows ==
    /\ epc = "generate"
    /\ rpc = "done"
    /\ retryOutcome.kind = "thrown"
    /\ editResult' = EditImageCaught(retryOutcome.error)
    /\ epc' = "done"
    /\ UNCHANGED parts
    /\ UNCHANGED retryVars
    /\ UNCHANGED otherThanEditImage

NextEditImage ==
    \/ PrepareReturns
    \/ PrepareThrows
    \/ GenerateContent
    \/ OperationResolves
    \/ OperationRejects
    \/ SleepEnds
    \/ WithRetryReturns
    \/ WithRetryThrows

SpecEditImage == InitEditImage /\ [][NextEditImage]_vars

\* The ways editImage fails.
PreparationFailed == epc = "done" /\ rpc = "idle"
ApiFailed == epc = "done" /\ retryOutcome.kind = "thrown"
NoImagePart ==
    /\ epc = "done"
    /\ retryOutcome.kind = "returned"
    /\ \A k \in DOMAIN parts : ~HasImageData(parts[k])

\* C36: editImage never throws; a failed image preparation, an API error
\* that is not retried, a transient error after the last attempt and a
\* response without an image part each end in a result with success =
\* false and the message of the failure, which makes editWithGeminiNative
\* fall back to the planned pipeline.
C36_EveryFailureIsAResult ==
    epc = "done" =>
        /\ editResult.kind = "returned"
        /\ (PreparationFailed \/ ApiFailed \/ NoImagePart) =>
               /\ ~editResult.success
               /\ FallsBack(editResult.success)
        /\ PreparationFailed => editResult.error \in PrepareErrors
        /\ ApiFailed => editResult.error = retryOutcome.error
        /\ NoImagePart => editResult.error \in {TextInsteadMsg, NoImageMsg}
        /\ ~(PreparationFailed \/ ApiFailed \/ NoImagePart) =>
               (editResult.success /\ ~FallsBack(editResult.success))

\* A transient error at the last of several attempts became a result.
C36_Witness ==
    /\ ApiFailed
    /\ invocations = maxRetries
    /\ invocations >= 2
    /\ IsRetryable(retryOutcome.error)
    /\ ~editResult.success
    /\ editResult.error = raised[Len(raised)]


----------------------------------------------------------------------------
(* POST /api/upload: the id of an upload is the millisecond it arrived in,  *)
(* the entry is stored under it and a timer deletes that id an hour later.  *)
(* Handlers run one at a time (one event loop), the clock moves between     *)
(* them; a timer fires at its due time or later.                            *)

\* Uploads the server receives in the model.
MaxUploads == 3
\* Milliseconds the clock moves in single steps after the start or a jump.
MaxSkewMs == 2

\* `setTimeout(..., 3600000)`
ExpiryMs == 3600000

\* The files of the multipart requests: req.file.mimetype and the base64 of
\* req.file.buffer.
UploadFiles ==
    {[mimetype |-> "image/png", base64 |-> "iVBORw0KGgo="],
     [mimetype |-> "image/jpeg", base64 |-> "/9j/4AAQSkZJRg=="]}

\* `upload_${Date.now()}`
UploadId(ms) == "upload_" \o ToString(ms)

\* `data:${mimeType};base64,${base64}`
DataUrl(file) == "data:" \o file.mimetype \o ";base64," \o file.base64

\* Map.prototype.set
MapSet(map, key, value) ==
    [k \in DOMAIN map \cup {key} |-> IF k = key THEN value ELSE map[k]]

\* Map.prototype.delete
MapDelete(map, key) == [k \in DOMAIN map \ {key} |-> map[k]]

InitUpload ==
    /\ EditIdle
    /\ RetryIdle
    /\ ResolverIdle
    /\ CompositeIdle
    /\ ParserIdle
    /\ PollIdle
    /\ ImageRefIdle
    /\ EditImageIdle
    /\ EditRouteIdle
    /\ clock = 0
    /\ uploadedImages = <<>>
    /\ timers = {}
    /\ uploadLog = <<>>

\* The handler of POST /api/upload with a file.
Upload ==
    /\ Len(uploadLog) < MaxUploads
    /\ \E file \in UploadFiles :
         LET id == UploadId(clock) IN
           /\ uploadedImages' = MapSet(uploadedImages, id, DataUrl(file))
           /\ timers' = timers \cup {[id |-> id, due |-> clock + ExpiryMs]}
           /\ uploadLog' = Append(uploadLog,
                                  [id |-> id, dataUrl |-> DataUrl(file), at |-> clock])
    /\ UNCHANGED clock
    /\ UNCHANGED otherThanUpload

\* The next millisecond begins.
ClockTicks ==
    /\ clock % ExpiryMs < MaxSkewMs
    /\ clock' = clock + 1
    /\ UNCHANGED <<uploadedImages, timers, uploadLog>>
    /\ UNCHANGED otherThanUpload

\* Time passes until a pending timer is due.
ClockReachesTimer ==
    /\ \E t \in timers :
         /\ t.due > clock
         /\ clock' = t.due
    /\ UNCHANGED <<uploadedImages, timers, uploadLog>>
    /\ UNCHANGED otherThanUpload

\* A due timer runs `uploadedImages.delete(id)`.
TimerFires ==
    /\ \E t \in timers :
         /\ t.due <= clock
         /\ uploadedImages' = MapDelete(uploadedImages, t.id)
         /\ timers' = timers \ {t}
    /\ UNCHANGED <<clock, uploadLog>>
    /\ UNCHANGED otherThanUpload

NextUpload ==
    \/ Upload
    \/ ClockTicks
    \/ ClockReachesTimer
    \/ TimerFires

SpecUpload == InitUpload /\ [][NextUpload]_vars

\* The upload is within its hour.
Unexpired(u) == clock < u.at + ExpiryMs

\* C37: uploads receive distinct ids, two arriving in the same millisecond
\* included, and each is retrievable under its id until its own hour has
\* passed: no later upload overwrites the entry and no timer of another
\* upload deletes it.
C37_DistinctIdsAndOwnExpiry ==
    /\ \A m, n \in DOMAIN uploadLog : m # n => uploadLog[m].id # uploadLog[n].id
    /\ \A n \in DOMAIN uploadLog :
           Unexpired(uploadLog[n]) =>
               /\ uploadLog[n].id \in DOMAIN uploadedImages
               /\ uploadedImages[uploadLog[n].id] = uploadLog[n].dataUrl


----------------------------------------------------------------------------
(* POST /api/edit: quick operations first, then the masked edit (Gemini and  *)
(* compositeMaskedEdit), the edit with reference elements, the standard     *)
(* edit; one catch around the handler.                                      *)

\* The upload the store holds when the request arrives.
StoredUpload == [mimetype |-> "image/jpeg", base64 |-> "/9j/4AAQSkZJRg=="]

\* The request bodies ("" for a field that is absent or null).
EditRequests ==
    [imageSource : {UploadId(3), "data:image/png;base64,ORIG"},
     instruction : {"Change color to red"},
     mask : {"", "data:image/png;base64,MASK"},
     referenceElements : {<<>>, <<"logo">>},
     quickOperation : {"", "remove-bg", "upscale", "sharpen"}]

\* What a GeminiEditor method returns: an image, a success without one, a
\* failure with and without a message.
GeminiResults ==
    {[success |-> TRUE, outputDataUrl |-> "data:image/png;base64,GEMINI", error |-> ""],
     [success |-> TRUE, outputDataUrl |-> "", error |-> ""],
     [success |-> FALSE, outputDataUrl |-> "", error |-> "No image in response"],
     [success |-> FALSE, outputDataUrl |-> "", error |-> ""]}

ApiKeyMsg == "Gemini API key required."
SharpMsg == "Input buffer contains unsupported image format"

\* `uploadedImages.get(imageSource) || imageSource`
SourceOf(ref) ==
    IF ref \in DOMAIN uploadedImages /\ Truthy(uploadedImages[ref])
    THEN uploadedImages[ref]
    ELSE ref

\* The data URL compositeMaskedEdit returns for its three arguments.
Composited(original, edited, mask) ==
    "data:image/png;base64,composite(" \o original \o "," \o edited \o "," \o mask \o ")"

\* res.json({ success: true, outputUrl, operations })
EditOk(outputUrl, operations) ==
    [status |-> 200, success |-> TRUE, outputUrl |-> outputUrl, error |-> "",
     operations |-> operations]

\* res.status(code).json({ error })
EditError(code, message) ==
    [status |-> code, success |-> FALSE, outputUrl |-> "", error |-> message,
     operations |-> <<>>]

\* `!result.success || !result.outputDataUrl`
GeminiFailed(r) == ~r.success \/ ~Truthy(r.outputDataUrl)

\* Faulty variant: the masked edit answers with what Gemini returned.
MaskedOutputRaw(raw, composited) == raw
\* `outputUrl: compositedResult` of the masked edit.
MaskedOutput(raw, composited) == composited

\* The branch of the handler and the method it calls.
BranchOf(body) ==
    IF Truthy(body.quickOperation)
    THEN IF body.quickOperation \in {"remove-bg", "upscale"}
         THEN [at |-> "quick", call |-> "editImage"]
         ELSE [at |-> "unknown", call |-> "none"]
    ELSE IF Truthy(body.mask)
         THEN IF Len(body.referenceElements) > 0
              THEN [at |-> "masked", call |-> "editWithMaskAndReferences"]
              ELSE [at |-> "masked", call |-> "editWithMask"]
         ELSE IF Len(body.referenceElements) > 0
              THEN [at |-> "refs", call |-> "editWithReferences"]
              ELSE [at |-> "standard", call |-> "editImage"]

\* The operations the answer of a branch lists.
OperationsOf(body, at) ==
    CASE at = "quick" -> <<body.quickOperation>>
      [] at = "masked" -> <<"gemini-edit", "mask-composite">>
      [] at = "refs" -> <<"gemini-edit-with-refs">>
      [] OTHER -> <<"gemini-edit">>

\* The message of a failure without one.
DefaultError(at) == IF at = "quick" THEN "Operation failed" ELSE "Gemini edit failed"

InitEditRoute ==
    /\ EditIdle
    /\ RetryIdle
    /\ ResolverIdle
    /\ CompositeIdle
    /\ ParserIdle
    /\ PollIdle
    /\ ImageRefIdle
    /\ EditImageIdle
    /\ clock = 5
    /\ uploadedImages = (UploadId(3) :> DataUrl(StoredUpload))
    /\ timers = {[id |-> UploadId(3), due |-> 3 + ExpiryMs]}
    /\ uploadLog = <<[id |-> UploadId(3), dataUrl |-> DataUrl(StoredUpload), at |-> 3]>>
    /\ hpc = "start"
    /\ apiKeySet \in BOOLEAN
    /\ request \in EditRequests
    /\ geminiCall = "none"
    /\ geminiResult = NoGeminiResult
    /\ compositeArgs = <<>>
    /\ httpResponse = NoResponse

\* The handler up to its first await: an unknown quick operation is
\* answered with 400, createGeminiEditor throws without an API key, else
\* the method of the branch is called.
EditRequest ==
    /\ hpc = "start"
    /\ LET branch == BranchOf(request) IN
         IF branch.at = "unknown"
         THEN /\ httpResponse' =
                    EditError(400, "Unknown quick operation: " \o request.quickOperation)
              /\ hpc' = "done"
              /\ UNCHANGED geminiCall
         ELSE IF ~apiKeySet
              THEN /\ httpResponse' = EditError(500, ApiKeyMsg)
                   /\ hpc' = "done"
                   /\ UNCHANGED geminiCall
              ELSE /\ geminiCall' = branch.call
                   /\ hpc' = branch.at
                   /\ UNCHANGED httpResponse
    /\ UNCHANGED <<apiKeySet, request, geminiResult, compositeArgs>>
    /\ UNCHANGED otherThanEditRoute

\* The GeminiEditor method returned: a failure is answered with 500, the
\* masked edit goes on to compositeMaskedEdit, every other branch answers
\* with the output of Gemini.
GeminiReturns ==
    /\ hpc \in {"quick", "masked", "refs", "standard"}
    /\ \E r \in GeminiResults :
         /\ geminiResult' = r
         /\ IF GeminiFailed(r)
            THEN /\ httpResponse' =
                       EditError(500, IF Truthy(r.error) THEN r.error ELSE DefaultError(hpc))
                 /\ hpc' = "done"
                 /\ UNCHANGED compositeArgs
            ELSE IF hpc = "masked"
                 THEN /\ compositeArgs' =
                            <<SourceOf(request.imageSource), r.outputDataUrl, request.mask>>
                      /\ hpc' = "composite"
                      /\ UNCHANGED httpResponse
                 ELSE /\ httpResponse' = EditOk(r.outputDataUrl, OperationsOf(request, hpc))
                      /\ hpc' = "done"
                      /\ UNCHANGED compositeArgs
    /\ UNCHANGED <<apiKeySet, request, geminiCall>>
    /\ UNCHANGED otherThanEditRoute

\* compositeMaskedEdit returned its data URL.
CompositeReturns ==
    /\ hpc = "composite"
    /\ httpResponse' =
           EditOk(MaskedOutput(geminiResult.outputDataUrl,
                               Composited(compositeArgs[1], compositeArgs[2],
                                          compositeArgs[3])),
                  OperationsOf(request, "masked"))
    /\ hpc' = "done"
    /\ UNCHANGED <<apiKeySet, request, geminiCall, geminiResult, compositeArgs>>
    /\ UNCHANGED otherThanEditRoute

\* compositeMaskedEdit threw (an input sharp cannot decode): the catch of
\* the handler.
CompositeThrows ==
    /\ hpc = "composite"
    /\ httpResponse' = EditError(500, SharpMsg)
    /\ hpc' = "done"
    /\ UNCHANGED <<apiKeySet, request, geminiCall, geminiResult, compositeArgs>>
    /\ UNCHANGED otherThanEditRoute

NextEditRoute ==
    \/ EditRequest
    \/ GeminiReturns
    \/ CompositeReturns
    \/ CompositeThrows

SpecEditRoute == InitEditRoute /\ [][NextEditRoute]_vars

\* The answer is the composite of the source, the output of Gemini and the
\* mask of the request.
AnswersComposite ==
    /\ compositeArgs = <<SourceOf(request.imageSource), geminiResult.outputDataUrl,
                         request.mask>>
    /\ httpResponse.outputUrl =
           Composited(SourceOf(request.imageSource), geminiResult.outputDataUrl,
                      request.mask)
    /\ httpResponse.outputUrl # geminiResult.outputDataUrl

\* The masked edit of Gemini failed.
MaskedEditFailed ==
    /\ geminiCall \in {"editWithMask", "editWithMaskAndReferences"}
    /\ hpc = "done"
    /\ GeminiFailed(geminiResult)

FailureAnsweredWithoutComposite ==
    MaskedEditFailed =>
        /\ httpResponse.status = 500
        /\ ~httpResponse.success
        /\ Truthy(httpResponse.error)
        /\ compositeArgs = <<>>

\* C38 as stated: every successful answer to a request with a mask is the
\* composite, never the output of Gemini as it came; a failed masked edit
\* is answered with an error and nothing is composited.
C38_MaskedAnswerIsComposite ==
    /\ (httpResponse.success /\ Truthy(request.mask)) => AnswersComposite
    /\ FailureAnsweredWithoutComposite

\* C38 amended: the same for requests with a mask and no quick operation.
C38_MaskedAnswerIsCompositeUnlessQuick ==
    /\ (httpResponse.success /\ Truthy(request.mask) /\ ~Truthy(request.quickOperation))
           => AnswersComposite
    /\ FailureAnsweredWithoutComposite

C38_Witness ==
    /\ httpResponse.success
    /\ Truthy(request.mask)
    /\ ~Truthy(request.quickOperation)
    /\ request.imageSource = UploadId(3)
    /\ httpResponse.operations = <<"gemini-edit", "mask-composite">>


----------------------------------------------------------------------------
(* The blend of compositeMaskedEdit over every mask value: one call on      *)
(* images of one pixel, the mask of every grey from 0 to 255, the colours   *)
(* at and next to the ends of the byte range.                               *)

MaskValues == 0..255

\* An image of one pixel.
OnePixel(pixel) == [width |-> 1, height |-> 1, channels |-> Len(pixel), data |-> pixel]

BlendOriginals ==
    {OnePixel(p) : p \in {<<0, 255, 127>>, <<255, 1, 128, 200>>, <<254, 0, 77>>}}

BlendEditeds ==
    {OnePixel(p) : p \in {<<255, 0, 128>>, <<0, 254, 127, 64>>, <<3, 255, 77>>}}

BlendMasks == {OnePixel(<<m, m, m, 255>>) : m \in MaskValues}

InitBlend ==
    /\ EditIdle
    /\ RetryIdle
    /\ ResolverIdle
    /\ ParserIdle
    /\ PollIdle
    /\ ImageRefIdle
    /\ EditImageIdle
    /\ UploadIdle
    /\ EditRouteIdle
    /\ originalImage \in BlendOriginals
    /\ editedImage \in BlendEditeds
    /\ maskImage \in BlendMasks
    /\ cpc = "start"
    /\ editedResized = <<>>
    /\ maskResized = <<>>
    /\ originalRaw = <<>>
    /\ editedChannels = 0
    /\ px = 0
    /\ outBuf = <<>>
    /\ composite = NoImage

SpecBlend == InitBlend /\ [][NextComposite]_vars

Min(a, b) == IF a <= b THEN a ELSE b
Max(a, b) == IF a >= b THEN a ELSE b
Abs(a) == IF a >= 0 THEN a ELSE -a

\* out is the integer nearest to (orig * (255 - m) + edit * m) / 255.
IsRounded(out, orig, edit, m) ==
    2 * Abs(255 * out - (orig * (255 - m) + edit * m)) <= 255

\* C40: at every pixel and for every mask value m from 0 to 255, each of R,
\* G and B of the composite is round((orig * (255 - m) + edited * m) / 255),
\* lies between orig and edited inclusive and inside 0..255.
C40_BlendIsRoundedAndBounded ==
    cpc = "done" =>
        \A k \in 0..(PixelCount - 1) : \A ch \in 1..3 :
            LET out == PixelAt(composite, k)[ch]
                orig == OriginalRgba(k)[ch]
                edit == PixelAt(Resize(editedImage, originalImage.width,
                                       originalImage.height), k)[ch]
                m == GreyRaw(Resize(maskImage, originalImage.width,
                                    originalImage.height))[k + 1]
            IN  /\ IsRounded(out, orig, edit, m)
                /\ Min(orig, edit) <= out
                /\ out <= Max(orig, edit)
                /\ out \in 0..255

\* A partial mask between the two ends of the byte range, rounded upwards.
C40_Witness ==
    /\ cpc = "done"
    /\ PixelAt(maskImage, 0)[1] = 3
    /\ PixelAt(originalImage, 0) = <<0, 255, 127>>
    /\ PixelAt(editedImage, 0) = <<255, 0, 128>>
    /\ PixelAt(composite, 0) = <<3, 252, 127, 255>>

====
